---- MODULE Spec2Model ----
(***************************************************************************)
(* Entity recognition engine of green_gain (apps/api/app/services):        *)
(* the Aho-Corasick matcher, the EntityMatcher built on it (pattern        *)
(* loading, overlap resolution, tagging) and the recognition service.      *)
(*                                                                         *)
(* Texts are sequences of characters (one-character strings; "Idot" stands *)
(* for U+0130 and "dot" for U+0307, the only character whose Python        *)
(* str.lower() has two characters).  Positions are 0-based as in the       *)
(* source; confidences are percentages (1.0 is 100).                       *)
(***************************************************************************)
EXTENDS Integers, Sequences, FiniteSets, TLC

VARIABLES
    call,            \* which entry point this run exercises
    gazetteer,       \* the gazetteer the matcher was built from
    aliases,         \* the alias records the matcher was built from
    case_sensitive,  \* AhoCorasickMatcher.case_sensitive
    children,        \* node -> characters of its child edges, insertion order
    outputs,         \* node -> AhoCorasickNode.outputs
    failure,         \* node -> AhoCorasickNode.failure (None before the build)
    patterns_added,  \* AhoCorasickMatcher.patterns_added
    text,            \* argument text of the running call
    word_boundaries, \* argument word_boundaries of find_all
    pc,              \* position of the running call
    i,               \* find_all: index of the character being consumed
    current,         \* find_all: current node
    matches,         \* find_all: matches collected / list handed to the resolver
    spin,            \* find_all: an iteration of the inner while left its state unchanged
    resolved,        \* result of _resolve_overlaps
    tagged_text,     \* result of _generate_tagged_text
    entities,        \* entity records returned by recognize_entities
    matcher,         \* EntityRecognitionService.matcher: "EntityMatcher" or "None"
    request,         \* arguments text and options of the recognize call
    start_time,      \* recognize: time.time() read at line 86
    result,          \* what recognize returned: <<>> before, <<dict>> after
    enabled,         \* FuzzyMatcher.enabled
    confidence_threshold, \* FuzzyMatcher.confidence_threshold, in percent
    match_cache,     \* FuzzyMatcher._match_cache: token -> cached results
    matchers,        \* the EntityMatcher objects built so far (service under reload)
    fuzzy_matchers,  \* the FuzzyMatcher objects built so far (service under reload)
    self_matcher,    \* EntityRecognitionService.matcher: an index into matchers
    self_fuzzy_matcher, \* EntityRecognitionService.fuzzy_matcher: an index into fuzzy_matchers
    calls,           \* the frames of the recognize calls in flight, one per caller
    reloader,        \* the frame of reload_artifacts and the number of reloads done
    lru_cache,       \* lru_cache of _cached_recognize: (text, fuzzy_matching) -> JSON result
    cache_manager,   \* CacheManager: attached to the object, enabled, stats
    redis,           \* the Redis server: reachable or not, key -> stored string and TTL
    executions,      \* how often the method wrapped by cache_result has run
    loader,          \* ArtifactLoader: gazetteer, aliases, loaded
    files,           \* the artifact files on disk
    scheduler,       \* SimpleScheduler: running, the loop's position, tasks
    clock_utc,       \* datetime.now(timezone.utc), in minutes since the first month began
    admin            \* routes/admin.py: _current_update, _update_history, background tasks

conc_vars == <<matchers, fuzzy_matchers, self_matcher, self_fuzzy_matcher, calls, reloader>>

\* State outside the recognition engine: caches, loader, scheduler, admin routes.
cache_vars == <<cache_manager, redis, executions>>

loader_vars == <<loader, files>>

admin_vars == <<scheduler, clock_utc, admin>>

ops_vars == <<lru_cache, cache_vars, loader_vars, admin_vars>>

vars == <<call, gazetteer, aliases, case_sensitive, children, outputs, failure,
          patterns_added, text, word_boundaries, pc, i, current, matches, spin, resolved,
          tagged_text, entities, matcher, request, start_time, result, enabled,
          confidence_threshold, match_cache, conc_vars, ops_vars>>

-----------------------------------------------------------------------------
(* Bounds of the model.                                                    *)

MaxLen == 4

\* Wall-clock readings run over 0..MaxClock (seconds).
MaxClock == 1

-----------------------------------------------------------------------------
(* Characters and Python string primitives.                                *)

LowerLetters == <<"a", "b", "c", "d", "e", "f", "g", "h", "i", "j", "k", "l", "m",
                  "n", "o", "p", "q", "r", "s", "t", "u", "v", "w", "x", "y", "z">>

UpperLetters == <<"A", "B", "C", "D", "E", "F", "G", "H", "I", "J", "K", "L", "M",
                  "N", "O", "P", "Q", "R", "S", "T", "U", "V", "W", "X", "Y", "Z">>

Digits == <<"0", "1", "2", "3", "4", "5", "6", "7", "8", "9">>

Range(s) == {s[k] : k \in 1..Len(s)}

Min(a, b) == IF a < b THEN a ELSE b

\* str.lower() of one character: a sequence, two characters long for U+0130.
LowerChar(c) ==
    IF c \in Range(UpperLetters)
    THEN <<LowerLetters[CHOOSE k \in 1..26 : UpperLetters[k] = c]>>
    ELSE IF c = "Idot" THEN <<"i", "dot">> ELSE <<c>>

\* str.lower(): character by character; the text grows by one at every U+0130.
RECURSIVE Lower(_)
Lower(s) ==
    IF \A k \in 1..Len(s) : s[k] # "Idot" THEN [k \in 1..Len(s) |-> LowerChar(s[k])[1]]
    ELSE LET d == CHOOSE k \in 1..Len(s) : s[k] = "Idot" /\ \A j \in 1..(k - 1) : s[j] # "Idot"
         IN  Lower(SubSeq(s, 1, d - 1)) \o LowerChar("Idot") \o Lower(SubSeq(s, d + 1, Len(s)))

\* str.isalnum() of one character.
IsAlnum(c) == c \in Range(LowerLetters) \cup Range(UpperLetters) \cup Range(Digits) \cup {"Idot"}

\* s[a:b] for 0 <= a, 0 <= b: Python clamps both ends to len(s).
Slice(s, a, b) ==
    IF Min(b, Len(s)) <= Min(a, Len(s)) THEN <<>>
    ELSE SubSeq(s, Min(a, Len(s)) + 1, Min(b, Len(s)))

\* str.rstrip("s")
RECURSIVE RStripS(_)
RStripS(s) ==
    IF s # <<>> /\ s[Len(s)] = "s" THEN RStripS(SubSeq(s, 1, Len(s) - 1)) ELSE s

\* A tag that keeps the type as it is.
ReplaceUnderscoreNot(s) == s

\* str.replace("_", "-")
ReplaceUnderscore(s) == [k \in 1..Len(s) |-> IF s[k] = "_" THEN "-" ELSE s[k]]

-----------------------------------------------------------------------------
(* The trie.  A node is the sequence of characters on its path from the    *)
(* root; None is the failure link of a node before the build (and of the   *)
(* root always).                                                           *)

Root == <<>>

None == <<"None">>

NoId == <<"None">>

HasChild(ch, node, char) == char \in Range(ch[node])

EmptyTrie == [children |-> (Root :> <<>>), outputs |-> (Root :> <<>>), failure |-> (Root :> None)]

\* One iteration of the for loop of add_pattern: create the child if absent.
RECURSIVE AddPath(_, _, _)
AddPath(trie, node, key) ==
    IF key = <<>> THEN trie
    ELSE LET char == Head(key)
             child == Append(node, char)
             t2 == IF HasChild(trie.children, node, char) THEN trie
                   ELSE [children |-> (child :> <<>>) @@
                                      [trie.children EXCEPT ![node] = Append(@, char)],
                         outputs |-> (child :> <<>>) @@ trie.outputs,
                         failure |-> (child :> None) @@ trie.failure]
         IN  AddPath(t2, child, Tail(key))

AddPattern(trie, cs, pattern, metadata) ==
    IF pattern = <<>> THEN trie
    ELSE LET key == IF cs THEN pattern ELSE Lower(pattern)
             t2 == AddPath(trie, Root, key)
         IN  [t2 EXCEPT !.outputs[key] = Append(@, [pattern |-> pattern] @@ metadata)]

\* The inner while of build_failure_links.
RECURSIVE FailWalk(_, _, _, _)
FailWalk(ch, fl, f, char) ==
    IF f # None /\ ~HasChild(ch, f, char) THEN FailWalk(ch, fl, fl[f], char) ELSE f

\* Body of "for char, child in current.children.items()".
LinkChild(ch, st, cur, char) ==
    LET child == Append(cur, char)
        f == FailWalk(ch, st.failure, st.failure[cur], char)
        cf == IF f # None
              THEN (IF HasChild(ch, f, char) THEN Append(f, char) ELSE Root)
              ELSE Root
        outs == IF st.outputs[cf] # <<>> THEN st.outputs[child] \o st.outputs[cf]
                ELSE st.outputs[child]
    IN  [queue |-> Append(st.queue, child),
         failure |-> [st.failure EXCEPT ![child] = cf],
         outputs |-> [st.outputs EXCEPT ![child] = outs]]

RECURSIVE LinkChildren(_, _, _, _)
LinkChildren(ch, st, cur, k) ==
    IF k > Len(ch[cur]) THEN st
    ELSE LinkChildren(ch, LinkChild(ch, st, cur, ch[cur][k]), cur, k + 1)

\* "while queue": pop the head, link its children.
RECURSIVE BfsLoop(_, _)
BfsLoop(ch, st) ==
    IF st.queue = <<>> THEN st
    ELSE BfsLoop(ch, LinkChildren(ch, [st EXCEPT !.queue = Tail(@)], Head(st.queue), 1))

\* find_all without lines 84-85: the links stay as add_pattern left them.
BuildNoLinks(ch, outs, fl) == [queue |-> <<>>, failure |-> fl, outputs |-> outs]

BuildFailureLinks(ch, outs, fl) ==
    LET depth1 == [k \in 1..Len(ch[Root]) |-> <<ch[Root][k]>>]
        fl1 == [n \in DOMAIN fl |-> IF n \in Range(depth1) THEN Root ELSE fl[n]]
    IN  BfsLoop(ch, [queue |-> depth1, failure |-> fl1, outputs |-> outs])

-----------------------------------------------------------------------------
(* EntityMatcher: pattern loading.                                         *)

stopwords == {
    <<"t", "h", "e">>, <<"a">>, <<"a", "n">>,
    <<"a", "n", "d">>, <<"o", "r">>, <<"b", "u", "t">>,
    <<"i", "n">>, <<"o", "n">>, <<"a", "t">>,
    <<"t", "o">>, <<"f", "o", "r">>, <<"o", "f">>,
    <<"w", "i", "t", "h">>, <<"b", "y">>, <<"f", "r", "o", "m">>,
    <<"a", "s">>, <<"i", "s">>, <<"w", "a", "s">>,
    <<"a", "r", "e">>, <<"w", "e", "r", "e">>, <<"b", "e", "e", "n">> }

TManufacturer == <<"m", "a", "n", "u", "f", "a", "c", "t", "u", "r", "e", "r">>
TBrand == <<"b", "r", "a", "n", "d">>
TProduct == <<"p", "r", "o", "d", "u", "c", "t">>
TCategory == <<"c", "a", "t", "e", "g", "o", "r", "y">>
TMetric == <<"m", "e", "t", "r", "i", "c">>
TTimePeriod == <<"t", "i", "m", "e", "_", "p", "e", "r", "i", "o", "d">>

\* Keys of gazetteer["entities"] as the artifacts name them.
GManufacturers == Append(TManufacturer, "s")
GBrands == Append(TBrand, "s")
GProducts == Append(TProduct, "s")
GCategories == <<"c", "a", "t", "e", "g", "o", "r", "i", "e", "s">>

\* Metadata of a canonical gazetteer entity (no "id" key: match.get("id") is None).
EntityMeta(entity_type, entity) ==
    [type |-> RStripS(entity_type), display_name |-> entity, id |-> NoId, confidence |-> 100]

AliasMeta(alias_entry) ==
    [type |-> alias_entry.type, display_name |-> alias_entry.name,
     id |-> alias_entry.id, confidence |-> alias_entry.confidence]

WordMeta(type, word) ==
    [type |-> type, display_name |-> word, id |-> NoId, confidence |-> 100]

\* The add_pattern calls of one gazetteer group, stopwords skipped.
GroupEntries(group) ==
    LET kept == SelectSeq(group.names, LAMBDA e : Lower(e) \notin stopwords)
    IN  [k \in 1..Len(kept) |-> [pattern |-> kept[k], meta |-> EntityMeta(group.key, kept[k])]]

RECURSIVE EntitiesEntries(_)
EntitiesEntries(groups) ==
    IF groups = <<>> THEN <<>>
    ELSE GroupEntries(Head(groups)) \o EntitiesEntries(Tail(groups))

AliasEntries(al) ==
    LET kept == SelectSeq(al, LAMBDA a : Lower(a.alias) \notin stopwords)
    IN  [k \in 1..Len(kept) |-> [pattern |-> kept[k].alias, meta |-> AliasMeta(kept[k])]]

WordEntries(type, words) ==
    [k \in 1..Len(words) |-> [pattern |-> words[k], meta |-> WordMeta(type, words[k])]]

\* The add_pattern calls of _load_patterns, in call order.
LoadEntries(g, al) ==
    EntitiesEntries(g.entities) \o AliasEntries(al)
        \o WordEntries(TMetric, g.metrics)
        \o WordEntries(TTimePeriod, g.timewords)

RECURSIVE AddAll(_, _, _)
AddAll(trie, cs, entries) ==
    IF entries = <<>> THEN trie
    ELSE AddAll(AddPattern(trie, cs, Head(entries).pattern, Head(entries).meta), cs,
                Tail(entries))

LoadPatterns(g, al) == AddAll(EmptyTrie, FALSE, LoadEntries(g, al))

\* EntityMatcher.__init__: load the patterns, then build the failure links.
NewEntityMatcher(g, al) ==
    LET t == LoadPatterns(g, al)
        b == BuildFailureLinks(t.children, t.outputs, t.failure)
    IN  [children |-> t.children, outputs |-> b.outputs, failure |-> b.failure]

-----------------------------------------------------------------------------
(* AhoCorasickMatcher.find_all: the pieces of one loop iteration.          *)

SearchText(cs, t) == IF cs THEN t ELSE Lower(t)

\* text[start - 1] of _is_word_boundary is out of range: IndexError.
WordBoundaryRaises(t, start, end) == start > 0 /\ start - 1 >= Len(t)

IsWordBoundary(t, start, end) ==
    IF start > 0 /\ IsAlnum(t[start]) THEN FALSE
    ELSE IF end < Len(t) /\ IsAlnum(t[end + 1]) THEN FALSE
    ELSE TRUE

MatchRecord(t, out, start, end) ==
    [text |-> Slice(t, start, end), pattern |-> out.pattern, start |-> start, end |-> end,
     type |-> out.type, display_name |-> out.display_name, id |-> out.id,
     confidence |-> out.confidence]

\* "for pattern, metadata in current.outputs" at index idx; acc.raised is set when
\* _is_word_boundary raises, which ends find_all.
RECURSIVE EmitOutputs(_, _, _, _, _, _, _)
EmitOutputs(t, cs, wb, outs, idx, k, acc) ==
    IF k > Len(outs) \/ acc.raised THEN acc
    ELSE LET out == outs[k]
             start_pos == idx - Len(IF cs THEN out.pattern ELSE Lower(out.pattern)) + 1
             end_pos == idx + 1
         IN  IF wb /\ WordBoundaryRaises(t, start_pos, end_pos)
             THEN [acc EXCEPT !.raised = TRUE]
             ELSE IF wb /\ ~IsWordBoundary(t, start_pos, end_pos)
             THEN EmitOutputs(t, cs, wb, outs, idx, k + 1, acc)
             ELSE EmitOutputs(t, cs, wb, outs, idx, k + 1,
                      [acc EXCEPT !.matches = Append(@, MatchRecord(t, out, start_pos, end_pos))])

\* "current = current.failure or self.root"
FailureOrRoot(fl, node) == IF fl[node] # None THEN fl[node] ELSE Root

-----------------------------------------------------------------------------
(* EntityMatcher._resolve_overlaps and _generate_tagged_text.              *)

type_priority ==
    (TManufacturer :> 1) @@ (TBrand :> 2) @@ (TProduct :> 3) @@ (TCategory :> 4)
        @@ (TMetric :> 5) @@ (TTimePeriod :> 6)

\* key=lambda x: (x["start"], -x["end"])
ResolveKeyLess(a, b) == a.start < b.start \/ (a.start = b.start /\ -a.end < -b.end)

\* key=lambda x: x["start"]
StartLess(a, b) == a.start < b.start

KeyLess(key, a, b) == IF key = "start,-end" THEN ResolveKeyLess(a, b) ELSE StartLess(a, b)

\* sorted(): stable insertion of x behind every element that is not greater.
RECURSIVE InsertSorted(_, _, _)
InsertSorted(s, x, key) ==
    IF s = <<>> THEN <<x>>
    ELSE IF KeyLess(key, x, Head(s)) THEN <<x>> \o s
    ELSE <<Head(s)>> \o InsertSorted(Tail(s), x, key)

RECURSIVE Sorted(_, _)
Sorted(s, key) ==
    IF s = <<>> THEN <<>>
    ELSE InsertSorted(Sorted(SubSeq(s, 1, Len(s) - 1), key), s[Len(s)], key)

\* One iteration of the loop without the priority branch: an overlapping match is
\* always dropped.
ResolveStepNoPriority(st, match) ==
    IF match.start >= st.last_end
    THEN [resolved |-> Append(st.resolved, match), last_end |-> match.end]
    ELSE st

\* One iteration of "for match in matches" of _resolve_overlaps.
ResolveStep(st, match) ==
    IF match.start >= st.last_end
    THEN [resolved |-> Append(st.resolved, match), last_end |-> match.end]
    ELSE IF match.type \in DOMAIN type_priority /\ st.resolved # <<>>
    THEN LET last_match == st.resolved[Len(st.resolved)]
         IN  IF last_match.type \in DOMAIN type_priority
                 /\ type_priority[match.type] < type_priority[last_match.type]
             THEN [resolved |-> [st.resolved EXCEPT ![Len(st.resolved)] = match],
                   last_end |-> match.end]
             ELSE st
    ELSE st

RECURSIVE ResolveLoop(_, _)
ResolveLoop(ms, st) ==
    IF ms = <<>> THEN st ELSE ResolveLoop(Tail(ms), ResolveStep(st, Head(ms)))

\* _resolve_overlaps without the sort: the list is walked in find_all's order.
ResolveOverlapsUnsorted(ms) ==
    IF ms = <<>> THEN <<>>
    ELSE ResolveLoop(ms, [resolved |-> <<>>, last_end |-> -1]).resolved

ResolveOverlaps(ms) ==
    IF ms = <<>> THEN <<>>
    ELSE ResolveLoop(Sorted(ms, "start,-end"), [resolved |-> <<>>, last_end |-> -1]).resolved

\* A stretch of tagged text: every character with a mark telling whether it is
\* markup the tagger wrote or a character copied from the input.
Piece(s, inserted) == [k \in 1..Len(s) |-> [c |-> s[k], ins |-> inserted]]

\* One iteration of "for match in matches" of _generate_tagged_text.
TagStep(t, st, match) ==
    LET gap == IF match.start > st.last_pos
               THEN Piece(Slice(t, st.last_pos, match.start), FALSE) ELSE <<>>
        tag_type == ReplaceUnderscore(match.type)
    IN  [result |-> st.result \o gap
                      \o Piece(<<"<">> \o tag_type \o <<">">>, TRUE)
                      \o Piece(match.text, FALSE)
                      \o Piece(<<"<", "/">> \o tag_type \o <<">">>, TRUE),
         last_pos |-> match.end]

RECURSIVE TagLoop(_, _, _)
TagLoop(t, ms, st) ==
    IF ms = <<>> THEN st ELSE TagLoop(t, Tail(ms), TagStep(t, st, Head(ms)))

\* _generate_tagged_text without the copy of the text behind the last match.
GenerateTaggedTextNoTail(t, ms) ==
    IF ms = <<>> THEN Piece(t, FALSE)
    ELSE TagLoop(t, Sorted(ms, "start"), [result |-> <<>>, last_pos |-> 0]).result

GenerateTaggedText(t, ms) ==
    IF ms = <<>> THEN Piece(t, FALSE)
    ELSE LET st == TagLoop(t, Sorted(ms, "start"), [result |-> <<>>, last_pos |-> 0])
         IN  IF st.last_pos < Len(t)
             THEN st.result \o Piece(Slice(t, st.last_pos, Len(t)), FALSE)
             ELSE st.result

\* The entity record recognize_entities builds from a resolved match.
EntityRecord(match) ==
    [text |-> match.text, type |-> match.type, start |-> match.start, end |-> match.end,
     confidence |-> match.confidence, id |-> match.id,
     metadata |-> [display_name |-> match.display_name]]

-----------------------------------------------------------------------------
(* FuzzyMatcher.  The similarity backend (rapidfuzz) is outside the        *)
(* repository: a lookup gets its scores, or an exception, from the         *)
(* environment.  Confidences and thresholds are percentages.               *)

DefaultThreshold == 80

MaxMatches == 3

MaxSuggestions == 5

\* Scores the backend may give a candidate.
Scores == {70, 85, 95}

GMetrics == Append(TMetric, "s")
GTimewords == <<"t", "i", "m", "e", "w", "o", "r", "d", "s">>

WordIndexEntry(entity_type, entity) ==
    [text |-> entity, type |-> entity_type, full_name |-> entity, metadata |-> [name |-> entity]]

AliasIndexEntry(alias_entry) ==
    [text |-> alias_entry.alias, type |-> alias_entry.type, full_name |-> alias_entry.name,
     metadata |-> alias_entry]

\* st.all is _all_entities, st.meta is _entity_metadata.
RECURSIVE IndexWords(_, _, _)
IndexWords(st, entity_type, words) ==
    IF words = <<>> THEN st
    ELSE IndexWords([all |-> Append(st.all, Head(words)),
                     meta |-> (Head(words) :> WordIndexEntry(entity_type, Head(words))) @@ st.meta],
                    entity_type, Tail(words))

RECURSIVE IndexAliases(_, _)
IndexAliases(st, al) ==
    IF al = <<>> THEN st
    ELSE IndexAliases(
             IF Head(al).alias # <<>> /\ Head(al).alias \notin DOMAIN st.meta
             THEN [all |-> Append(st.all, Head(al).alias),
                   meta |-> (Head(al).alias :> AliasIndexEntry(Head(al))) @@ st.meta]
             ELSE st,
             Tail(al))

\* "Remove duplicates while preserving order"
RECURSIVE Unique(_, _)
Unique(seq, seen) ==
    IF seq = <<>> THEN <<>>
    ELSE IF Head(seq) \in seen THEN Unique(Tail(seq), seen)
    ELSE <<Head(seq)>> \o Unique(Tail(seq), seen \cup {Head(seq)})

\* _build_search_index: of the items of the gazetteer only the list values are
\* indexed ("metrics", "timewords"); the value of "entities" is a dict and is skipped.
BuildSearchIndex(g, al) ==
    LET w == IndexWords(IndexWords([all |-> <<>>, meta |-> <<>>], GMetrics, g.metrics),
                        GTimewords, g.timewords)
        a == IndexAliases(w, al)
    IN  [all |-> Unique(a.all, {}), meta |-> a.meta]

\* One row of the edit-distance table: prev is the row of the prefix before c.
RECURSIVE LevRow(_, _, _, _)
LevRow(prev, c, b, row) ==
    IF Len(row) = Len(prev) THEN row
    ELSE LET j == Len(row)
             sub == prev[j] + (IF b[j] = c THEN 0 ELSE 1)
         IN  LevRow(prev, c, b, Append(row, Min(Min(prev[j + 1] + 1, row[j] + 1), sub)))

RECURSIVE LevRows(_, _, _)
LevRows(a, b, prev) ==
    IF a = <<>> THEN prev
    ELSE LevRows(Tail(a), b, LevRow(prev, Head(a), b, <<prev[1] + 1>>))

\* Levenshtein.distance(a, b)
LevenshteinDistance(a, b) == LevRows(a, b, [j \in 1..(Len(b) + 1) |-> j - 1])[Len(b) + 1]

\* list.sort(key=confidence, reverse=True) / sorted(...): stable, highest first.
RECURSIVE InsertByConfidence(_, _)
InsertByConfidence(seq, x) ==
    IF seq = <<>> THEN <<x>>
    ELSE IF x.confidence > Head(seq).confidence THEN <<x>> \o seq
    ELSE <<Head(seq)>> \o InsertByConfidence(Tail(seq), x)

RECURSIVE SortByConfidence(_)
SortByConfidence(seq) ==
    IF seq = <<>> THEN <<>>
    ELSE InsertByConfidence(SortByConfidence(SubSeq(seq, 1, Len(seq) - 1)), seq[Len(seq)])

\* What the backend may answer to a lookup over n candidates: it raises, or it
\* scores every candidate.
BackendAnswers(n) ==
    {[raised |-> TRUE, score |-> [k \in 1..n |-> 0]]}
        \cup {[raised |-> FALSE, score |-> sc] : sc \in [1..n -> Scores]}

\* process.extract(..., limit, score_cutoff): the candidates scoring at least the
\* cutoff, best first, at most limit of them.
Extract(index, score, limit, score_cutoff) ==
    LET n == Len(index.all)
        kept == SelectSeq([k \in 1..n |-> [text |-> index.all[k], confidence |-> score[k]]],
                          LAMBDA c : c.confidence >= score_cutoff)
    IN  SubSeq(SortByConfidence(kept), 1, Min(limit, Len(kept)))

FuzzyResult(index, token, cand) ==
    LET metadata == index.meta[cand.text]
    IN  [text |-> cand.text, confidence |-> cand.confidence, type |-> metadata.type,
         full_name |-> metadata.full_name, metadata |-> metadata.metadata,
         match_type |-> "fuzzy", original_query |-> token,
         levenshtein_distance |-> LevenshteinDistance(Lower(token), Lower(cand.text))]

\* find_fuzzy_matches(token, max_matches) of an enabled matcher: the results and
\* the cache it leaves.
FindFuzzyMatches(index, threshold, cache, token, max_matches, answer) ==
    IF Len(token) < 2 THEN [results |-> <<>>, cache |-> cache]
    ELSE IF token \in DOMAIN cache THEN [results |-> cache[token], cache |-> cache]
    ELSE IF answer.raised THEN [results |-> <<>>, cache |-> cache]
    ELSE LET found == Extract(index, answer.score, max_matches * 2, threshold)
             passed == SelectSeq(found, LAMBDA c : c.confidence >= threshold)
             results == [k \in 1..Len(passed) |-> FuzzyResult(index, token, passed[k])]
             top == SubSeq(SortByConfidence(results), 1, Min(max_matches, Len(results)))
         IN  [results |-> top, cache |-> (token :> top) @@ cache]

\* The for loop of find_fuzzy_matches_in_segments; answers[k] is the backend's
\* answer to the lookup of segment k, should it be asked.
RECURSIVE SegmentsLoop(_, _, _, _, _, _)
SegmentsLoop(index, threshold, segments, answers, k, st) ==
    IF k > Len(segments) THEN st
    ELSE LET f == FindFuzzyMatches(index, threshold, st.cache, segments[k], MaxMatches,
                                   answers[k])
         IN  SegmentsLoop(index, threshold, segments, answers, k + 1,
                          [all_matches |-> st.all_matches \o f.results, cache |-> f.cache])

\* "Remove duplicates": the first match of each text.
RECURSIVE UniqueByText(_, _)
UniqueByText(ms, seen_texts) ==
    IF ms = <<>> THEN <<>>
    ELSE IF Head(ms).text \in seen_texts THEN UniqueByText(Tail(ms), seen_texts)
    ELSE <<Head(ms)>> \o UniqueByText(Tail(ms), seen_texts \cup {Head(ms).text})

FindFuzzyMatchesInSegments(index, threshold, cache, segments, answers) ==
    LET st == SegmentsLoop(index, threshold, segments, answers, 1,
                           [all_matches |-> <<>>, cache |-> cache])
    IN  [unique_matches |-> UniqueByText(SortByConfidence(st.all_matches), {}),
         cache |-> st.cache]

\* \w of the re module.
IsWordChar(c) == IsAlnum(c) \/ c = "_"

\* re.split(r"\W+", s) without the empty strings.
RECURSIVE SplitWords(_, _)
SplitWords(s, st) ==
    IF s = <<>> THEN (IF st.cur # <<>> THEN Append(st.words, st.cur) ELSE st.words)
    ELSE IF IsWordChar(Head(s))
    THEN SplitWords(Tail(s), [st EXCEPT !.cur = Append(@, Head(s))])
    ELSE SplitWords(Tail(s), [words |-> IF st.cur # <<>> THEN Append(st.words, st.cur)
                                        ELSE st.words,
                              cur |-> <<>>])

\* re.split(r"\W+", s) with the words of one character kept.
LongWordsAll(s) ==
    SplitWords(s, [words |-> <<>>, cur |-> <<>>])

\* [word for word in re.split(r"\W+", s) if len(word) > 1]
LongWords(s) ==
    SelectSeq(SplitWords(s, [words |-> <<>>, cur |-> <<>>]), LAMBDA w : Len(w) > 1)

RECURSIVE UnmatchedLoop(_, _, _)
UnmatchedLoop(t, ms, st) ==
    IF ms = <<>> THEN st
    ELSE LET gap == IF Head(ms).start > st.last_end
                    THEN LongWords(Slice(t, st.last_end, Head(ms).start)) ELSE <<>>
         IN  UnmatchedLoop(t, Tail(ms),
                           [segments |-> st.segments \o gap, last_end |-> Head(ms).end])

FindUnmatchedSegments(t, exact_matches) ==
    IF exact_matches = <<>> THEN LongWords(t)
    ELSE LET st == UnmatchedLoop(t, Sorted(exact_matches, "start"),
                                 [segments |-> <<>>, last_end |-> 0])
         IN  IF st.last_end < Len(t)
             THEN st.segments \o LongWords(Slice(t, st.last_end, Len(t)))
             ELSE st.segments

Suggestion(match) ==
    [text |-> match.text, confidence |-> match.confidence, type |-> match.type,
     suggestion_type |-> "fuzzy_match", original_query |-> match.original_query]

\* An enhancement that merges every fuzzy match, whatever its confidence.
EnhanceWithFuzzyMatchingNoSplit(index, threshold, cache, t, exact_matches, answers) ==
    LET f == FindFuzzyMatchesInSegments(index, threshold, cache,
                                        FindUnmatchedSegments(t, exact_matches), answers)
    IN  [fuzzy_matches |-> f.unique_matches,
         suggestions |-> <<>>,
         enhanced_entities |-> exact_matches \o f.unique_matches,
         cache |-> f.cache]

\* An enhancement that puts the fuzzy matches in front of the exact ones.
EnhanceWithFuzzyMatchingFuzzyFirst(index, threshold, cache, t, exact_matches, answers) ==
    LET f == FindFuzzyMatchesInSegments(index, threshold, cache,
                                        FindUnmatchedSegments(t, exact_matches), answers)
    IN  [fuzzy_matches |-> f.unique_matches,
         suggestions |-> <<>>,
         enhanced_entities |-> f.unique_matches \o exact_matches,
         cache |-> f.cache]

\* enhance_with_fuzzy_matching of an enabled matcher.
EnhanceWithFuzzyMatching(index, threshold, cache, t, exact_matches, answers) ==
    LET f == FindFuzzyMatchesInSegments(index, threshold, cache,
                                        FindUnmatchedSegments(t, exact_matches), answers)
        high == SelectSeq(f.unique_matches, LAMBDA m : m.confidence >= threshold)
        low == SelectSeq(f.unique_matches, LAMBDA m : ~(m.confidence >= threshold))
        suggestions == [k \in 1..Len(low) |-> Suggestion(low[k])]
    IN  [fuzzy_matches |-> f.unique_matches,
         suggestions |-> SubSeq(suggestions, 1, Min(MaxSuggestions, Len(suggestions))),
         enhanced_entities |-> exact_matches \o high,
         cache |-> f.cache]

\* enhance_with_fuzzy_matching without the check of lines 244-249.
EnhanceUnguarded(en, index, threshold, cache, t, exact_matches, answers) ==
    EnhanceWithFuzzyMatching(index, threshold, cache, t, exact_matches, answers)

\* enhance_with_fuzzy_matching: a matcher that is not enabled returns the exact
\* matches at once (lines 244-249).
Enhance(en, index, threshold, cache, t, exact_matches, answers) ==
    IF ~en
    THEN [fuzzy_matches |-> <<>>, suggestions |-> <<>>, enhanced_entities |-> exact_matches,
          cache |-> cache]
    ELSE EnhanceWithFuzzyMatching(index, threshold, cache, t, exact_matches, answers)

\* find_fuzzy_matches: line 135 returns [] when the matcher is not enabled or the
\* text is empty or has one character.
FindFuzzy(en, index, threshold, cache, token, max_matches, answer) ==
    IF ~en \/ token = <<>> THEN [results |-> <<>>, cache |-> cache]
    ELSE FindFuzzyMatches(index, threshold, cache, token, max_matches, answer)

-----------------------------------------------------------------------------
(* EntityRecognitionService.recognize: options and results.                *)

TruncLimit == 500

\* The options argument: None, a dict holding some of the two keys, or a value
\* that is no dict (a non-empty list).
NoOptions ==
    [kind |-> "None", has_fuzzy_matching |-> FALSE, fuzzy_matching |-> FALSE,
     has_confidence_threshold |-> FALSE, confidence_threshold |-> DefaultThreshold]

DictOptions(has_fm, fm, has_ct, ct) ==
    [kind |-> "dict", has_fuzzy_matching |-> has_fm, fuzzy_matching |-> fm,
     has_confidence_threshold |-> has_ct, confidence_threshold |-> ct]

ListOptions == [NoOptions EXCEPT !.kind = "list"]

\* A recognize that enhances whatever the options say.
GetFuzzyMatchingAlways(o) == TRUE

\* options.get("fuzzy_matching", False)
GetFuzzyMatching(o) ==
    IF o.kind = "dict" /\ o.has_fuzzy_matching THEN o.fuzzy_matching ELSE FALSE

\* options.get("confidence_threshold", 0.8)
GetConfidenceThreshold(o) ==
    IF o.kind = "dict" /\ o.has_confidence_threshold THEN o.confidence_threshold
    ELSE DefaultThreshold

\* (time.time() - start_time) * 1000
ElapsedMs(now, start) == (now - start) * 1000

\* The dict the except handler and the missing-matcher branch return: the text
\* without markup, no entities.
ErrorResult(t, ms, message) ==
    [tagged_text |-> Piece(t, FALSE), entities |-> <<>>, processing_time_ms |-> ms,
     error |-> message]

-----------------------------------------------------------------------------
(* Inputs: vocabularies, texts and raw match lists.                        *)

MaxPos == 3

MaxRaw == 3

Gazetteer(ents, metrics, timewords) ==
    [entities |-> ents, metrics |-> metrics, timewords |-> timewords]

Group(key, names) == [key |-> key, names |-> names]

\* Vocabularies with the characters their texts are drawn from.
VocabPriority ==
    [gazetteer |-> Gazetteer(<<Group(GManufacturers, <<<<"B">>>>),
                               Group(GBrands, <<<<"b", " ", "c">>>>)>>,
                             <<<<"c">>>>, <<>>),
     aliases |-> <<>>, alphabet |-> {"b", "c", " ", "B"}]

VocabNested ==
    [gazetteer |-> Gazetteer(<<>>, <<<<"b">>, <<"b", " ", "c">>>>, <<<<"c">>>>),
     aliases |-> <<>>, alphabet |-> {"b", "c", " ", "C"}]

VocabSuffix ==
    [gazetteer |-> Gazetteer(<<Group(GManufacturers, <<<<"c", "b">>>>),
                               Group(GProducts, <<<<"b">>>>),
                               Group(GCategories, <<<<"c">>>>)>>, <<>>, <<>>),
     aliases |-> <<>>, alphabet |-> {"b", "c", " ", "B"}]

VocabDotted ==
    [gazetteer |-> Gazetteer(<<Group(GManufacturers, <<<<"Idot">>>>)>>, <<<<"b">>>>, <<>>),
     aliases |-> <<>>, alphabet |-> {"b", "Idot", " "}]

VocabSpace ==
    [gazetteer |-> Gazetteer(<<Group(GManufacturers, <<<<"b">>>>),
                               Group(GBrands, <<<<" ">>>>)>>, <<<<"c">>>>, <<>>),
     aliases |-> <<[type |-> TProduct, name |-> <<"c", "b">>, alias |-> <<"c", "c">>,
                    id |-> <<"P", "1">>, confidence |-> 90]>>,
     alphabet |-> {"b", "c", " ", "B"}]

\* A vocabulary whose words are stopwords, under every kind of entry.
VocabStop ==
    [gazetteer |-> Gazetteer(<<Group(GBrands, <<<<"A">>, <<>>>>)>>, <<<<"a">>, <<>>>>,
                             <<<<"a", "n">>>>),
     aliases |-> <<[type |-> TProduct, name |-> <<"c", "b">>, alias |-> <<"A", "n">>,
                    id |-> <<"P", "1">>, confidence |-> 90]>>,
     alphabet |-> {"a", "n"}]

\* A vocabulary with one name under two entity groups, the lower-priority
\* group first in the gazetteer file.
VocabTwice ==
    [gazetteer |-> Gazetteer(<<Group(GBrands, <<<<"b">>>>),
                               Group(GManufacturers, <<<<"B">>>>)>>, <<>>, <<>>),
     aliases |-> <<>>,
     alphabet |-> {"b", "B"}]

\* A vocabulary that leaves single characters and longer words unmatched
\* around its matches.
VocabGap ==
    [gazetteer |-> Gazetteer(<<Group(GBrands, <<<<"b", "c">>>>)>>, <<<<"c">>>>, <<<<"-", "c">>>>),
     aliases |-> <<>>,
     alphabet |-> {"b", "c", "-"}]

Vocabs == {VocabPriority, VocabNested, VocabSuffix, VocabDotted, VocabSpace, VocabStop,
           VocabTwice, VocabGap}

TextsOver(alphabet) == UNION {[1..n -> alphabet] : n \in 0..MaxLen}

\* The scenarios of tests/test_entity_recognition.py.
MarsText == <<"M", "a", "r", "s", "h", "m", "a", "l", "l", "o", "w", " ", "i", "s", " ", "n", "o", "t", " ", "M", "a", "r", "s">>
CadburyText == <<"C", "A", "D", "B", "U", "R", "Y", ",", " ", "c", "a", "d", "b", "u", "r", "y", ",", " ", "a", "n", "d", " ", "C", "a", "d", "b", "u", "r", "y">>
MarketText == <<"S", "h", "o", "w", " ", "m", "a", "r", "k", "e", "t", " ", "s", "h", "a", "r", "e", " ", "t", "r", "e", "n", "d", "s">>
MarsBarText == <<"M", "a", "r", "s", " ", "B", "a", "r", " ", "s", "a", "l", "e", "s", " ", "d", "a", "t", "a">>

PMars == <<"M", "a", "r", "s">>
PCadbury == <<"C", "a", "d", "b", "u", "r", "y">>
PMarket == <<"m", "a", "r", "k", "e", "t">>
PMarketShare == <<"m", "a", "r", "k", "e", "t", " ", "s", "h", "a", "r", "e">>
PMarsBar == <<"M", "a", "r", "s", " ", "B", "a", "r">>

ExampleWordBoundary ==
    [gazetteer |-> Gazetteer(<<Group(GManufacturers, <<PMars>>)>>, <<>>, <<>>),
     aliases |-> <<>>, text |-> MarsText, call |-> "find_all"]

ExampleCase ==
    [gazetteer |-> Gazetteer(<<Group(GManufacturers, <<PCadbury>>)>>, <<>>, <<>>),
     aliases |-> <<>>, text |-> CadburyText, call |-> "find_all"]

ExampleLongest ==
    [gazetteer |-> Gazetteer(<<>>, <<PMarket, PMarketShare>>, <<>>),
     aliases |-> <<>>, text |-> MarketText, call |-> "recognize_entities"]

ExamplePriority ==
    [gazetteer |-> Gazetteer(<<Group(GManufacturers, <<PMars>>),
                               Group(GProducts, <<PMarsBar>>)>>, <<>>, <<>>),
     aliases |-> <<>>, text |-> MarsBarText, call |-> "recognize_entities"]

AliasText == <<"I", " ", "l", "o", "v", "e", " ", "C", "a", "d", "b", "u", "r", "y", "s", " ", "c", "h", "o", "c", "o", "l", "a", "t", "e">>

\* test_alias_recognition: the gazetteer has no entity, the alias is 'cadburys'.
ExampleAlias ==
    [gazetteer |-> Gazetteer(<<>>, <<>>, <<>>),
     aliases |-> <<[type |-> TManufacturer, name |-> PCadbury,
                    alias |-> <<"c", "a", "d", "b", "u", "r", "y", "s">>,
                    id |-> <<"M", "F", "R", "_", "0", "0", "1">>, confidence |-> 90]>>,
     text |-> AliasText, call |-> "recognize_entities"]

Examples == {ExampleWordBoundary, ExampleCase, ExampleLongest, ExamplePriority, ExampleAlias}

\* Lists find_all can hand to _resolve_overlaps on a text of MaxPos - 1 characters:
\* any spans and types, in the order find_all appends them (by end, then by start).
\* A span may end past the text, as the spans of a text that lower() lengthens do.
RawText == [k \in 1..(MaxPos - 1) |-> IF k % 2 = 1 THEN "b" ELSE "c"]

RawTypes == {TManufacturer, TBrand, TMetric, RStripS(GCategories)}

RawMatch(start, end, type) ==
    [text |-> Slice(RawText, start, end), pattern |-> Slice(RawText, start, end),
     start |-> start, end |-> end, type |-> type,
     display_name |-> Slice(RawText, start, end), id |-> NoId, confidence |-> 100]

RawMatches ==
    {RawMatch(s, e, ty) : s \in 0..(MaxPos - 1), e \in 1..MaxPos, ty \in RawTypes}

EmitsBefore(a, b) == a.end < b.end \/ (a.end = b.end /\ a.start <= b.start)

-----------------------------------------------------------------------------
(* Initial states: an EntityMatcher built from a vocabulary and a call on  *)
(* it that is about to run.                                                *)

\* Nothing outside the engine has run.
\* No scheduler thread, no task, no admin request.
NoAdminState ==
    /\ scheduler = [running |-> FALSE, pc |-> "idle", tasks |-> <<>>]
    /\ clock_utc = 0
    /\ admin = [current_update |-> "None", update_history |-> <<>>, background_tasks |-> <<>>,
                updates |-> 0]

NoOpsState ==
    /\ lru_cache = <<>>
    /\ cache_manager = [attached |-> FALSE, enabled |-> FALSE,
                        stats |-> [hits |-> 0, misses |-> 0, errors |-> 0, total_requests |-> 0]]
    /\ redis = [up |-> FALSE, data |-> <<>>]
    /\ executions = 0
    /\ loader = [gazetteer |-> [kind |-> "dict", form |-> "value", body |-> "{}"],
                 aliases |-> [kind |-> "list", form |-> "value", body |-> "[]"],
                 loaded |-> FALSE]
    /\ files = "missing"
    /\ NoAdminState

\* One matcher and one call: no reload runs and no second caller.
NoConcState ==
    /\ NoOpsState
    /\ matchers = <<>>
    /\ fuzzy_matchers = <<>>
    /\ self_matcher = 0
    /\ self_fuzzy_matcher = 0
    /\ calls = <<>>
    /\ reloader = [pc |-> "idle", reloads |-> 0]

NoCallState ==
    /\ NoConcState
    /\ i = 0
    /\ current = Root
    /\ spin = FALSE
    /\ resolved = <<>>
    /\ tagged_text = <<>>
    /\ entities = <<>>

\* find_all called on a matcher whose patterns are loaded; built tells whether
\* build_failure_links has run (EntityMatcher.__init__ runs it).
\* The matcher is used directly: no service call is running.
NoServiceState ==
    /\ matcher = "EntityMatcher"
    /\ request = [text |-> <<>>, options |-> NoOptions]
    /\ start_time = 0
    /\ result = <<>>
    /\ enabled = FALSE
    /\ confidence_threshold = DefaultThreshold
    /\ match_cache = <<>>

InitMatcher(g, al, built) ==
    LET loaded == LoadPatterns(g, al)
        m == IF built THEN NewEntityMatcher(g, al) ELSE loaded
    IN  /\ gazetteer = g
        /\ aliases = al
        /\ case_sensitive = FALSE
        /\ children = m.children
        /\ outputs = m.outputs
        /\ failure = m.failure
        /\ patterns_added = built

InitScan ==
    \E v \in Vocabs, cl \in {"find_all", "recognize_entities"}, wb \in BOOLEAN,
       built \in BOOLEAN :
        /\ cl = "recognize_entities" => (wb /\ built)
        /\ InitMatcher(v.gazetteer, v.aliases, built)
        /\ call = cl
        /\ word_boundaries = wb
        /\ text \in TextsOver(v.alphabet)
        /\ pc = IF cl = "find_all" THEN "find_all" ELSE "recognize_entities"
        /\ matches = <<>>
        /\ NoCallState
        /\ NoServiceState

InitExample ==
    \E e \in Examples :
        /\ InitMatcher(e.gazetteer, e.aliases, TRUE)
        /\ call = e.call
        /\ word_boundaries = TRUE
        /\ text = e.text
        /\ pc = IF e.call = "find_all" THEN "find_all" ELSE "recognize_entities"
        /\ matches = <<>>
        /\ NoCallState
        /\ NoServiceState

Init == InitScan \/ InitExample

\* recognize_entities at line 222 with find_all replaced by a stub that may return
\* any list of raw matches (RawAppend builds the list).
InitResolve ==
    /\ InitMatcher(Gazetteer(<<>>, <<>>, <<>>), <<>>, TRUE)
    /\ call = "recognize_entities"
    /\ word_boundaries = TRUE
    /\ text = RawText
    /\ pc = "resolve"
    /\ matches = <<>>
    /\ NoCallState
    /\ NoServiceState

-----------------------------------------------------------------------------
(* Actions.                                                                *)

scan_vars == <<i, current, matches, spin>>
matcher_vars == <<gazetteer, aliases, case_sensitive, children, outputs, failure, patterns_added>>
call_vars == <<call, text, word_boundaries>>
result_vars == <<resolved, tagged_text, entities>>
svc_vars == <<matcher, request, start_time, result, enabled, confidence_threshold, match_cache>>

\* recognize_entities, line 222: call find_all(text, word_boundaries=True).
RecognizeEntitiesEnter ==
    /\ pc = "recognize_entities"
    /\ pc' = "find_all"
    /\ word_boundaries' = TRUE
    /\ UNCHANGED <<ops_vars, conc_vars, call, text, matcher_vars, scan_vars, result_vars, svc_vars>>

\* find_all, lines 84-89: build the links if not built, start at the root.
FindAllEnter ==
    /\ pc = "find_all"
    /\ IF ~patterns_added
       THEN LET b == BuildFailureLinks(children, outputs, failure)
            IN  /\ failure' = b.failure
                /\ outputs' = b.outputs
                /\ patterns_added' = TRUE
       ELSE UNCHANGED <<failure, outputs, patterns_added>>
    /\ matches' = <<>>
    /\ current' = Root
    /\ i' = 0
    /\ pc' = "scan"
    /\ UNCHANGED <<ops_vars, conc_vars, gazetteer, aliases, case_sensitive, children, call_vars, spin,
                   result_vars, svc_vars>>

search_text == SearchText(case_sensitive, text)

\* find_all, lines 92-93: one iteration of the inner while.
FollowFailure ==
    /\ pc = "scan"
    /\ i < Len(search_text)
    /\ current # None /\ ~HasChild(children, current, search_text[i + 1])
    /\ current' = FailureOrRoot(failure, current)
    /\ spin' = (spin \/ current' = current)
    /\ UNCHANGED <<ops_vars, conc_vars, pc, i, matches, matcher_vars, call_vars, result_vars, svc_vars>>

\* find_all, lines 95-119: take the transition, report the outputs of the node.
Transition ==
    /\ pc = "scan"
    /\ i < Len(search_text)
    /\ ~(current # None /\ ~HasChild(children, current, search_text[i + 1]))
    /\ LET char == search_text[i + 1]
           nxt == IF HasChild(children, current, char) THEN Append(current, char) ELSE Root
           out == EmitOutputs(text, case_sensitive, word_boundaries, outputs[nxt], i, 1,
                              [raised |-> FALSE, matches |-> matches])
       IN  /\ current' = nxt
           /\ matches' = out.matches
           /\ IF out.raised THEN pc' = "raised" /\ i' = i
              ELSE pc' = "scan" /\ i' = i + 1
    /\ UNCHANGED <<ops_vars, conc_vars, spin, matcher_vars, call_vars, result_vars, svc_vars>>

\* find_all, line 121: the for loop is over, return matches.
FindAllReturn ==
    /\ pc = "scan"
    /\ i = Len(search_text)
    /\ pc' = IF call = "find_all" THEN "done" ELSE "resolve"
    /\ UNCHANGED <<ops_vars, conc_vars, scan_vars, matcher_vars, call_vars, result_vars, svc_vars>>

\* recognize_entities, line 224.
Resolve ==
    /\ pc = "resolve"
    /\ resolved' = ResolveOverlaps(matches)
    /\ pc' = "tag"
    /\ UNCHANGED <<ops_vars, conc_vars, scan_vars, matcher_vars, call_vars, tagged_text, entities, svc_vars>>

\* recognize_entities, lines 226-241.
Tag ==
    /\ pc = "tag"
    /\ tagged_text' = GenerateTaggedText(text, resolved)
    /\ entities' = [k \in 1..Len(resolved) |-> EntityRecord(resolved[k])]
    /\ pc' = "done"
    /\ UNCHANGED <<ops_vars, conc_vars, scan_vars, matcher_vars, call_vars, resolved, svc_vars>>

Next ==
    \/ RecognizeEntitiesEnter
    \/ FindAllEnter
    \/ FollowFailure
    \/ Transition
    \/ FindAllReturn
    \/ Resolve
    \/ Tag

Spec == Init /\ [][Next]_vars

\* The stub of find_all appends one more raw match to the list it returns.
RawAppend ==
    /\ pc = "resolve"
    /\ Len(matches) < MaxRaw
    /\ \E m \in RawMatches :
        /\ m.start < m.end
        /\ matches # <<>> => EmitsBefore(matches[Len(matches)], m)
        /\ matches' = Append(matches, m)
    /\ UNCHANGED <<ops_vars, conc_vars, pc, i, current, spin, matcher_vars, call_vars, result_vars, svc_vars>>

NextResolve == RawAppend \/ Resolve \/ Tag

ResolveSpec == InitResolve /\ [][NextResolve]_vars

-----------------------------------------------------------------------------
(* EntityRecognitionService.recognize: one call on a service whose         *)
(* artifacts are loaded (or whose matcher is None, as in                   *)
(* test_error_handling).                                                   *)

Clock == 0..MaxClock

Repeat(c, n) == [k \in 1..n |-> c]

\* Texts at and over the length limit; the last one makes the scan of its first
\* TruncLimit characters raise.
LongTexts ==
    {Repeat("b", TruncLimit), Repeat("b", TruncLimit + 1),
     Repeat("b", TruncLimit - 3) \o <<"Idot", "Idot", "b", "b">>,
     Repeat(" ", TruncLimit + 1)}

\* A vocabulary with a pattern that is not alphanumeric, and a text over the limit
\* whose first TruncLimit characters end with that pattern after one U+0130.
VocabDash ==
    [gazetteer |-> Gazetteer(<<Group(GManufacturers, <<<<"Idot">>>>)>>,
                             <<<<"b">>, <<"-">>>>, <<>>),
     aliases |-> <<>>, alphabet |-> {"b", "Idot", "-"}]

DashText == <<"Idot">> \o Repeat("b", TruncLimit - 2) \o <<"-", "b", "b">>

ServiceVocabs == {VocabDotted, VocabNested}

ServiceOptions ==
    {NoOptions, ListOptions, DictOptions(FALSE, FALSE, FALSE, DefaultThreshold),
     DictOptions(TRUE, TRUE, FALSE, DefaultThreshold), DictOptions(TRUE, TRUE, TRUE, 90),
     DictOptions(TRUE, FALSE, TRUE, 90)}

InitService ==
    \E v \in ServiceVocabs \cup {VocabDash}, o \in ServiceOptions, available \in BOOLEAN,
       rapidfuzz \in BOOLEAN :
        /\ InitMatcher(v.gazetteer, v.aliases, TRUE)
        /\ matcher = IF available THEN "EntityMatcher" ELSE "None"
        /\ enabled = rapidfuzz
        /\ confidence_threshold = DefaultThreshold
        /\ match_cache = <<>>
        /\ \/ v \in ServiceVocabs /\ text \in TextsOver(v.alphabet)
           \/ /\ \/ v = VocabDotted /\ text \in LongTexts
                 \/ v = VocabDash /\ text = DashText
              /\ o \in {NoOptions, ListOptions}
              /\ available
              /\ ~rapidfuzz
        /\ request = [text |-> text, options |-> o]
        /\ call = "recognize"
        /\ word_boundaries = TRUE
        /\ pc = "recognize"
        /\ start_time = 0
        /\ result = <<>>
        /\ matches = <<>>
        /\ NoCallState

\* recognize, lines 76-96: without a matcher return at once; otherwise read the
\* clock, cut the text, read the options (a value without .get raises, and the
\* handler of lines 152-161 returns) and call recognize_entities.
Recognize ==
    /\ pc = "recognize"
    /\ IF matcher = "None"
       THEN /\ result' = <<ErrorResult(text, 0, "Entity recognition service not available")>>
            /\ pc' = "returned"
            /\ UNCHANGED <<text, start_time>>
       ELSE \E now \in Clock :
            /\ start_time' = now
            /\ text' = IF Len(text) > TruncLimit THEN Slice(text, 0, TruncLimit) ELSE text
            /\ IF request.options.kind = "list"
               THEN \E later \in Clock :
                    /\ result' = <<ErrorResult(text', ElapsedMs(later, now),
                                              "'list' object has no attribute 'get'")>>
                    /\ pc' = "returned"
               ELSE /\ pc' = "recognize_entities"
                    /\ UNCHANGED result
    /\ UNCHANGED <<ops_vars, conc_vars, call, word_boundaries, matcher_vars, scan_vars, result_vars, matcher,
                   request, enabled, confidence_threshold, match_cache>>

\* recognize, lines 98-150: recognize_entities has returned; enhance if asked and
\* possible, stamp the time, return.  (Nothing enhance_with_fuzzy_matching does
\* raises: the backend call is guarded inside find_fuzzy_matches.)
RecognizeFinish ==
    /\ pc = "done"
    /\ call = "recognize"
    /\ \E now \in Clock :
        IF GetFuzzyMatching(request.options) /\ enabled
        THEN LET threshold == GetConfidenceThreshold(request.options)
                 index == BuildSearchIndex(gazetteer, aliases)
                 segments == FindUnmatchedSegments(text, entities)
             IN  \E answers \in [1..Len(segments) -> BackendAnswers(Len(index.all))] :
                    LET f == EnhanceWithFuzzyMatching(index, threshold, match_cache, text,
                                                      entities, answers)
                    IN  /\ confidence_threshold' = threshold
                        /\ match_cache' = f.cache
                        /\ result' = <<[tagged_text |-> tagged_text,
                                        entities |-> f.enhanced_entities,
                                        suggestions |-> f.suggestions,
                                        fuzzy_matches |-> f.fuzzy_matches,
                                        fuzzy_enabled |-> TRUE,
                                        processing_time_ms |-> ElapsedMs(now, start_time)]>>
        ELSE /\ result' = <<[tagged_text |-> tagged_text, entities |-> entities,
                             fuzzy_enabled |-> FALSE,
                             processing_time_ms |-> ElapsedMs(now, start_time)]>>
             /\ UNCHANGED <<confidence_threshold, match_cache>>
    /\ pc' = "returned"
    /\ UNCHANGED <<ops_vars, conc_vars, call_vars, matcher_vars, scan_vars, result_vars, matcher, request,
                   start_time, enabled>>

\* recognize, lines 152-161: the scan raised; the handler returns the error dict.
RecognizeExcept ==
    /\ pc = "raised"
    /\ call = "recognize"
    /\ \E now \in Clock :
        result' = <<ErrorResult(text, ElapsedMs(now, start_time), "string index out of range")>>
    /\ pc' = "returned"
    /\ UNCHANGED <<ops_vars, conc_vars, call_vars, matcher_vars, scan_vars, result_vars, matcher, request,
                   start_time, enabled, confidence_threshold, match_cache>>

NextService ==
    \/ Recognize
    \/ RecognizeEntitiesEnter
    \/ FindAllEnter
    \/ FollowFailure
    \/ Transition
    \/ FindAllReturn
    \/ Resolve
    \/ Tag
    \/ RecognizeFinish
    \/ RecognizeExcept

ServiceSpec == InitService /\ [][NextService]_vars

-----------------------------------------------------------------------------
(* A FuzzyMatcher used directly: any sequence of enhance_with_fuzzy_matching *)
(* and find_fuzzy_matches calls on one matcher, with the threshold set and  *)
(* the cache cleared in between.                                            *)

\* Seven index entries: six metrics and an alias.
FuzzyWords == [k \in 1..6 |-> <<"m", Digits[k + 1]>>]

VocabFuzzy ==
    [gazetteer |-> Gazetteer(<<>>, FuzzyWords, <<>>),
     aliases |-> <<[type |-> TProduct, name |-> <<"c", "b">>, alias |-> <<"m", "7">>,
                    id |-> <<"P", "1">>, confidence |-> 90]>>]

\* Words that are in no vocabulary.
Tokens == {<<"x", Digits[k + 1]>> : k \in 1..3}

Space == <<" ">>

\* Texts with the exact matches recognize_entities returned for them.
EnhanceInputs ==
    LET t1 == <<"x", "1">>
        t2 == <<"x", "2">>
        t3 == <<"x", "3">>
        long == FuzzyWords[1] \o Space \o t1 \o Space \o t2 \o Space \o t3
        exact == EntityRecord(MatchRecord(long, [pattern |-> FuzzyWords[1]]
                                                     @@ WordMeta(TMetric, FuzzyWords[1]), 0, 2))
    IN  {[text |-> <<>>, exact_matches |-> <<>>],
         [text |-> t1 \o Space \o t2, exact_matches |-> <<>>],
         [text |-> long, exact_matches |-> <<exact>>]}

Thresholds == {DefaultThreshold, 90}

\* The backend raises.
Raised(n) == [raised |-> TRUE, score |-> [k \in 1..n |-> 0]]

\* The backend's scores for a token: "x1" is close (85) to the first three
\* candidates, "x2" to the next three, any other token is nearer (95) to the rest;
\* every other candidate scores 70.
Scored(n, token) ==
    LET b == IF token = <<"x", "1">> THEN <<1..3, 85>>
             ELSE IF token = <<"x", "2">> THEN <<4..6, 85>>
             ELSE <<7..n, 95>>
    IN  [raised |-> FALSE, score |-> [k \in 1..n |-> IF k \in b[1] THEN b[2] ELSE 70]]

\* What the backend may answer to the lookup of a token: it raises, or it scores.
TokenAnswers(n, token) == {Raised(n), Scored(n, token)}

\* A lookup of token can reach the backend: the token has two characters or more
\* and is not in the cache.
AsksBackend(cache, token) == Len(token) >= 2 /\ token \notin DOMAIN cache

InitEnhance ==
    \E rapidfuzz \in BOOLEAN :
        /\ InitMatcher(VocabFuzzy.gazetteer, VocabFuzzy.aliases, TRUE)
        /\ call = "enhance"
        /\ word_boundaries = TRUE
        /\ text = <<>>
        /\ pc = "idle"
        /\ matches = <<>>
        /\ NoCallState
        /\ matcher = "EntityMatcher"
        /\ request = [text |-> <<>>, options |-> NoOptions]
        /\ start_time = 0
        /\ result = <<>>
        /\ enabled = rapidfuzz
        /\ confidence_threshold = DefaultThreshold
        /\ match_cache = <<>>

enhance_frame == <<call, word_boundaries, matcher_vars, scan_vars, resolved, tagged_text,
                   matcher, request, start_time, enabled, conc_vars, ops_vars>>

\* "self.fuzzy_matcher.confidence_threshold = confidence_threshold"
SetConfidenceThreshold ==
    /\ call = "enhance"
    /\ \E ct \in Thresholds \ {confidence_threshold} : confidence_threshold' = ct
    /\ pc' = "configured"
    /\ UNCHANGED <<enhance_frame, text, entities, result, match_cache>>

\* One call of enhance_with_fuzzy_matching(text, exact_matches).
EnhanceCall ==
    /\ call = "enhance"
    /\ \E inp \in EnhanceInputs :
        LET index == BuildSearchIndex(gazetteer, aliases)
            segments == FindUnmatchedSegments(inp.text, inp.exact_matches)
            n == Len(index.all)
        IN  \E answers \in [1..Len(segments) -> {Raised(n)} \cup {Scored(n, t) : t \in Tokens}] :
                /\ \A k \in 1..Len(segments) :
                       /\ answers[k] \in TokenAnswers(n, segments[k])
                       /\ ~AsksBackend(match_cache, segments[k])
                              => answers[k] = Raised(n)
                /\ LET f == Enhance(enabled, index, confidence_threshold, match_cache,
                                    inp.text, inp.exact_matches, answers)
                   IN
                    /\ text' = inp.text
                    /\ entities' = inp.exact_matches
                    /\ match_cache' = f.cache
                    /\ result' = <<[fuzzy_matches |-> f.fuzzy_matches,
                                    suggestions |-> f.suggestions,
                                    enhanced_entities |-> f.enhanced_entities]>>
    /\ pc' = "enhanced"
    /\ UNCHANGED <<enhance_frame, confidence_threshold>>

\* One call of find_fuzzy_matches(text) with the default max_matches.
FindFuzzyCall ==
    /\ call = "enhance"
    /\ \E token \in {<<"x", "1">>, <<"x", "3">>, <<"x">>, <<>>} :
        LET index == BuildSearchIndex(gazetteer, aliases)
        IN  \E answer \in TokenAnswers(Len(index.all), token) :
                /\ ~AsksBackend(match_cache, token) => answer = Raised(Len(index.all))
                /\ LET f == FindFuzzy(enabled, index, confidence_threshold, match_cache,
                                      token, MaxMatches, answer)
                   IN
                    /\ text' = token
                    /\ entities' = <<>>
                    /\ match_cache' = f.cache
                    /\ result' = <<f.results>>
    /\ pc' = "found"
    /\ UNCHANGED <<enhance_frame, confidence_threshold>>

\* FuzzyMatcher.clear_cache
ClearCache ==
    /\ call = "enhance"
    /\ match_cache # <<>>
    /\ match_cache' = <<>>
    /\ pc' = "cleared"
    /\ UNCHANGED <<enhance_frame, text, entities, result, confidence_threshold>>

NextEnhance == SetConfidenceThreshold \/ EnhanceCall \/ FindFuzzyCall \/ ClearCache

EnhanceSpec == InitEnhance /\ [][NextEnhance]_vars

-----------------------------------------------------------------------------
(* EntityRecognitionService under reload: the recognize calls of several   *)
(* callers and reload_artifacts (run by the scheduler's thread) interleave *)
(* at the reads and writes of the service's fields.  The time stamp of a   *)
(* result is left out here.                                                *)

MaxReloads == 1

Callers == {1, 2}

\* Two generations of the artifact files over the same characters.
GenerationA ==
    [gazetteer |-> Gazetteer(<<Group(GManufacturers, <<<<"b">>>>)>>, <<<<"c">>>>, <<>>),
     aliases |-> <<>>]

GenerationB ==
    [gazetteer |-> Gazetteer(<<Group(GManufacturers, <<<<"c">>>>)>>, <<<<"b">>>>, <<>>),
     aliases |-> <<>>]

\* What the artifact loader holds at the k-th load (the service is constructed by
\* load 0).
LoadedVocabulary(k) == IF k % 2 = 0 THEN GenerationA ELSE GenerationB

\* The arguments of a recognize call.
CallInputs ==
    {[text |-> <<"b", "b">>, options |-> DictOptions(TRUE, TRUE, FALSE, DefaultThreshold)],
     [text |-> <<"b", "b">>, options |-> DictOptions(TRUE, TRUE, TRUE, 90)],
     [text |-> <<"b">>, options |-> NoOptions],
     [text |-> <<"b", " ">>, options |-> NoOptions]}

\* The backend finds every candidate close to the token (0.85).
Close(n) == [raised |-> FALSE, score |-> [k \in 1..n |-> 85]]

\* EntityMatcher(gazetteer, aliases)
NewMatcherObject(v) ==
    [gazetteer |-> v.gazetteer, aliases |-> v.aliases]
        @@ NewEntityMatcher(v.gazetteer, v.aliases)

\* FuzzyMatcher(gazetteer, aliases, confidence_threshold)
NewFuzzyMatcher(v) ==
    [gazetteer |-> v.gazetteer, aliases |-> v.aliases, enabled |-> TRUE,
     confidence_threshold |-> DefaultThreshold, cache |-> <<>>]

\* A reload that rebuilds the automaton of the matcher in use.
InstallMatcherInPlace(ms, ref, new) == [matchers |-> [ms EXCEPT ![ref] = new], ref |-> ref]

\* "self.matcher = EntityMatcher(gazetteer, aliases)": a new object, then the
\* reference to it.
InstallMatcher(ms, ref, new) == [matchers |-> Append(ms, new), ref |-> Len(ms) + 1]

\* A get_fuzzy_matcher that returns the instance it has.
GetFuzzyMatcherSingleton(fs, ref, new) == [fuzzy_matchers |-> fs, ref |-> ref]

\* get_fuzzy_matcher(gazetteer, aliases) with a gazetteer: a new FuzzyMatcher
\* becomes the instance.
GetFuzzyMatcher(fs, ref, new) == [fuzzy_matchers |-> Append(fs, new), ref |-> Len(fs) + 1]

\* find_all, lines 92-93, on the automaton mo: the node the inner while ends in,
\* or that it never ends.
RECURSIVE FollowFailures(_, _, _)
FollowFailures(mo, node, char) ==
    IF HasChild(mo.children, node, char) THEN [hangs |-> FALSE, node |-> node]
    ELSE IF FailureOrRoot(mo.failure, node) = node THEN [hangs |-> TRUE, node |-> node]
    ELSE FollowFailures(mo, FailureOrRoot(mo.failure, node), char)

\* enhance_with_fuzzy_matching, lines 257-282, on the unique matches.
SplitMatches(threshold, exact_matches, unique_matches) ==
    LET high == SelectSeq(unique_matches, LAMBDA m : m.confidence >= threshold)
        low == SelectSeq(unique_matches, LAMBDA m : ~(m.confidence >= threshold))
        suggestions == [k \in 1..Len(low) |-> Suggestion(low[k])]
    IN  [fuzzy_matches |-> unique_matches,
         suggestions |-> SubSeq(suggestions, 1, Min(MaxSuggestions, Len(suggestions))),
         enhanced_entities |-> exact_matches \o high]

\* The frame of a caller that has not called yet.  m, f_threshold and f are the
\* objects the call reached through self.matcher (line 99) and through
\* self.fuzzy_matcher (lines 105-106 and 109); overtaken tells that the service's
\* matcher was replaced while the call was scanning.
IdleCall ==
    [pc |-> "idle", text |-> <<>>, options |-> NoOptions, m |-> 0, i |-> 0,
     current |-> Root, matches |-> <<>>, overtaken |-> FALSE, tagged_text |-> <<>>,
     entities |-> <<>>, f_threshold |-> 0, f |-> 0, segments |-> <<>>,
     all_matches |-> <<>>, result |-> <<>>]

seq_vars == <<call_vars, pc, matcher_vars, scan_vars, result_vars, svc_vars, ops_vars>>

\* A service constructed from the first generation, no call running.
InitConc ==
    /\ InitMatcher(GenerationA.gazetteer, GenerationA.aliases, TRUE)
    /\ call = "concurrent"
    /\ word_boundaries = TRUE
    /\ text = <<>>
    /\ pc = "idle"
    /\ matches = <<>>
    /\ i = 0
    /\ current = Root
    /\ spin = FALSE
    /\ resolved = <<>>
    /\ tagged_text = <<>>
    /\ entities = <<>>
    /\ NoServiceState
    /\ matchers = <<NewMatcherObject(LoadedVocabulary(0))>>
    /\ fuzzy_matchers = <<NewFuzzyMatcher(LoadedVocabulary(0))>>
    /\ self_matcher = 1
    /\ self_fuzzy_matcher = 1
    /\ calls = [c \in Callers |-> IdleCall]
    /\ reloader = [pc |-> "idle", reloads |-> 0]
    /\ NoOpsState

\* recognize, lines 76-99: the matcher is there, cut the text, read the options,
\* call recognize_entities on the object self.matcher refers to.
CallBegin(c) ==
    /\ calls[c].pc = "idle"
    /\ self_matcher # 0
    /\ \E inp \in CallInputs :
        calls' = [calls EXCEPT ![c] =
                     [IdleCall EXCEPT !.pc = "scan",
                                      !.text = IF Len(inp.text) > TruncLimit
                                               THEN Slice(inp.text, 0, TruncLimit)
                                               ELSE inp.text,
                                      !.options = inp.options,
                                      !.m = self_matcher]]
    /\ UNCHANGED <<seq_vars, matchers, fuzzy_matchers, self_matcher, self_fuzzy_matcher,
                   reloader>>

\* find_all, lines 91-119: one character of the text on the call's matcher.
CallScan(c) ==
    LET fr == calls[c]
        mo == matchers[fr.m]
        st == SearchText(FALSE, fr.text)
    IN  /\ fr.pc = "scan"
        /\ fr.i < Len(st)
        /\ LET char == st[fr.i + 1]
               w == FollowFailures(mo, fr.current, char)
               nxt == Append(w.node, char)
               out == EmitOutputs(fr.text, FALSE, TRUE, mo.outputs[nxt], fr.i, 1,
                                  [raised |-> FALSE, matches |-> fr.matches])
               seen == fr.overtaken \/ self_matcher # fr.m
           IN  calls' = [calls EXCEPT ![c] =
                   IF w.hangs THEN [fr EXCEPT !.pc = "hung", !.overtaken = seen]
                   ELSE IF out.raised
                   THEN [fr EXCEPT !.pc = "returned", !.overtaken = seen,
                                   !.result = <<[tagged_text |-> Piece(fr.text, FALSE),
                                                 entities |-> <<>>,
                                                 error |-> "string index out of range"]>>]
                   ELSE [fr EXCEPT !.current = nxt, !.matches = out.matches,
                                   !.i = fr.i + 1, !.overtaken = seen]]
        /\ UNCHANGED <<seq_vars, matchers, fuzzy_matchers, self_matcher, self_fuzzy_matcher,
                       reloader>>

\* recognize_entities, lines 224-241: the scan is over; resolve, tag, return.
CallResolve(c) ==
    LET fr == calls[c]
        res == ResolveOverlaps(fr.matches)
    IN  /\ fr.pc = "scan"
        /\ fr.i = Len(SearchText(FALSE, fr.text))
        /\ calls' = [calls EXCEPT ![c].pc = "check",
                                  ![c].tagged_text = GenerateTaggedText(fr.text, res),
                                  ![c].entities = [k \in 1..Len(res) |-> EntityRecord(res[k])]]
        /\ UNCHANGED <<seq_vars, matchers, fuzzy_matchers, self_matcher, self_fuzzy_matcher,
                       reloader>>

\* recognize, line 102 (and 141 when the answer is no).
CallCheck(c) ==
    LET fr == calls[c]
    IN  /\ fr.pc = "check"
        /\ calls' = [calls EXCEPT ![c] =
               IF /\ GetFuzzyMatching(fr.options)
                  /\ self_fuzzy_matcher # 0
                  /\ fuzzy_matchers[self_fuzzy_matcher].enabled
               THEN [fr EXCEPT !.pc = "threshold"]
               ELSE [fr EXCEPT !.pc = "returned",
                               !.result = <<[tagged_text |-> fr.tagged_text,
                                             entities |-> fr.entities,
                                             fuzzy_enabled |-> FALSE]>>]]
        /\ UNCHANGED <<seq_vars, matchers, fuzzy_matchers, self_matcher, self_fuzzy_matcher,
                       reloader>>

\* recognize, lines 105-106: the threshold of the object self.fuzzy_matcher refers
\* to becomes the threshold of this call.
CallThreshold(c) ==
    LET fr == calls[c]
    IN  /\ fr.pc = "threshold"
        /\ fuzzy_matchers' = [fuzzy_matchers EXCEPT
               ![self_fuzzy_matcher].confidence_threshold = GetConfidenceThreshold(fr.options)]
        /\ calls' = [calls EXCEPT ![c].pc = "enhance", ![c].f_threshold = self_fuzzy_matcher]
        /\ UNCHANGED <<seq_vars, matchers, self_matcher, self_fuzzy_matcher, reloader>>

\* recognize, line 109, and enhance_with_fuzzy_matching, lines 251-252: call the
\* object self.fuzzy_matcher refers to; it finds the unmatched segments.
CallEnhance(c) ==
    LET fr == calls[c]
    IN  /\ fr.pc = "enhance"
        /\ calls' = [calls EXCEPT ![c].pc = "lookup", ![c].f = self_fuzzy_matcher,
                                  ![c].segments = FindUnmatchedSegments(fr.text, fr.entities)]
        /\ UNCHANGED <<seq_vars, matchers, fuzzy_matchers, self_matcher, self_fuzzy_matcher,
                       reloader>>

\* find_fuzzy_matches_in_segments, lines 216-220: the lookup of one segment, with
\* the threshold and the cache the call's FuzzyMatcher has now.
CallLookup(c) ==
    LET fr == calls[c]
        fo == fuzzy_matchers[fr.f]
        index == BuildSearchIndex(fo.gazetteer, fo.aliases)
        r == FindFuzzyMatches(index, fo.confidence_threshold, fo.cache, Head(fr.segments),
                              MaxMatches, Close(Len(index.all)))
    IN  /\ fr.pc = "lookup"
        /\ fr.segments # <<>>
        /\ fuzzy_matchers' = [fuzzy_matchers EXCEPT ![fr.f].cache = r.cache]
        /\ calls' = [calls EXCEPT ![c].segments = Tail(fr.segments),
                                  ![c].all_matches = fr.all_matches \o r.results]
        /\ UNCHANGED <<seq_vars, matchers, self_matcher, self_fuzzy_matcher, reloader>>

\* Lines 222-231 and 257-282, then recognize, lines 114-125: remove duplicates,
\* split with the threshold the call's FuzzyMatcher has now, return.
CallSplit(c) ==
    LET fr == calls[c]
        unique == UniqueByText(SortByConfidence(fr.all_matches), {})
        s == SplitMatches(fuzzy_matchers[fr.f].confidence_threshold, fr.entities, unique)
    IN  /\ fr.pc = "lookup"
        /\ fr.segments = <<>>
        /\ calls' = [calls EXCEPT ![c].pc = "returned",
                                  ![c].result = <<[tagged_text |-> fr.tagged_text,
                                                   entities |-> s.enhanced_entities,
                                                   suggestions |-> s.suggestions,
                                                   fuzzy_matches |-> s.fuzzy_matches,
                                                   fuzzy_enabled |-> TRUE]>>]
        /\ UNCHANGED <<seq_vars, matchers, fuzzy_matchers, self_matcher, self_fuzzy_matcher,
                       reloader>>

\* _load_artifacts, lines 36-41: fetch the vocabulary, build the matcher, assign it.
ReloadMatcher ==
    /\ reloader.pc = "idle"
    /\ reloader.reloads < MaxReloads
    /\ LET v == LoadedVocabulary(reloader.reloads + 1)
           inst == InstallMatcher(matchers, self_matcher, NewMatcherObject(v))
       IN  /\ matchers' = inst.matchers
           /\ self_matcher' = inst.ref
    /\ reloader' = [reloader EXCEPT !.pc = "fuzzy"]
    /\ UNCHANGED <<seq_vars, fuzzy_matchers, self_fuzzy_matcher, calls>>

\* _load_artifacts, line 42.
ReloadFuzzy ==
    /\ reloader.pc = "fuzzy"
    /\ LET v == LoadedVocabulary(reloader.reloads + 1)
           inst == GetFuzzyMatcher(fuzzy_matchers, self_fuzzy_matcher, NewFuzzyMatcher(v))
       IN  /\ fuzzy_matchers' = inst.fuzzy_matchers
           /\ self_fuzzy_matcher' = inst.ref
    /\ reloader' = [reloader EXCEPT !.pc = "clear"]
    /\ UNCHANGED <<seq_vars, matchers, self_matcher, calls>>

\* reload_artifacts, lines 168-169: clear the cache of the FuzzyMatcher in use.
ReloadClear ==
    /\ reloader.pc = "clear"
    /\ fuzzy_matchers' = [fuzzy_matchers EXCEPT ![self_fuzzy_matcher].cache = <<>>]
    /\ reloader' = [pc |-> "idle", reloads |-> reloader.reloads + 1]
    /\ UNCHANGED <<seq_vars, matchers, self_matcher, self_fuzzy_matcher, calls>>

NextConc ==
    \/ \E c \in Callers :
        \/ CallBegin(c)
        \/ CallScan(c)
        \/ CallResolve(c)
        \/ CallCheck(c)
        \/ CallThreshold(c)
        \/ CallEnhance(c)
        \/ CallLookup(c)
        \/ CallSplit(c)
    \/ ReloadMatcher
    \/ ReloadFuzzy
    \/ ReloadClear

ConcSpec == InitConc /\ [][NextConc]_vars

-----------------------------------------------------------------------------
(* Properties.                                                             *)

Returned == pc = "done" /\ call = "recognize_entities"

\* tagged_text without the markup the tagger wrote.
StripTags(tt) ==
    LET kept == SelectSeq(tt, LAMBDA e : ~e.ins)
    IN  [k \in 1..Len(kept) |-> kept[k].c]

Overlap(a, b) == a.start < b.end /\ b.start < a.end

\* C1: removing the tags recognize_entities inserted into tagged_text gives back
\* the input text exactly.
C1_RoundTrip == Returned => StripTags(tagged_text) = text

\* C1 witness: a result with an untagged prefix, two tagged entities, a raw match
\* that was dropped and an entity reaching the end of the text.
C1_Witness ==
    /\ Returned
    /\ Len(entities) = 2
    /\ Len(matches) > 2
    /\ entities[1].start > 0
    /\ entities[2].end >= Len(text)
    /\ StripTags(tagged_text) = text

\* C2: the entities recognize_entities returns have pairwise disjoint spans and
\* are listed in ascending order of start.
C2_DisjointSorted ==
    Returned =>
        \A j, k \in 1..Len(entities) :
            j < k => /\ ~Overlap(entities[j], entities[k])
                     /\ entities[j].start < entities[k].start

\* C2 witness: overlapping and nested raw matches went in, two entities came out.
C2_Witness ==
    /\ Returned
    /\ Len(entities) >= 2
    /\ \E j, k \in 1..Len(matches) :
           /\ j # k
           /\ matches[j].start <= matches[k].start
           /\ matches[k].end < matches[j].end
    /\ \E j, k \in 1..Len(matches) :
           /\ Overlap(matches[j], matches[k])
           /\ matches[j].start < matches[k].start
           /\ matches[j].end < matches[k].end

\* C3: find_all returns for every text without raising: a character for which the
\* root has no transition produces no match, leaves the automaton at the root and
\* is consumed (the scan moves on to the next character).
C3_RootConsumesChar ==
    [][(/\ pc = "scan"
        /\ i < Len(search_text)
        /\ current = Root
        /\ ~HasChild(children, Root, search_text[i + 1]))
       => (pc' = "scan" /\ i' = i + 1 /\ current' = Root /\ matches' = matches)]_vars

\* C4: recognize hands every internal failure (no matcher, an exception of the scan
\* or of the options) back as a result with no entities, the input text cut to 500
\* characters as tagged_text, an error string and a processing_time_ms that is not
\* negative, 0 when there is no matcher.
C4_FailureResult ==
    [][(call = "recognize" /\ pc # "done" /\ pc' = "returned")
       => /\ result'[1].entities = <<>>
          /\ result'[1].tagged_text = Piece(Slice(request.text, 0, TruncLimit), FALSE)
          /\ "error" \in DOMAIN result'[1]
          /\ result'[1].processing_time_ms >= 0
          /\ matcher = "None" => result'[1].processing_time_ms = 0]_vars

\* The registered pattern entries of the matcher, in add_pattern order.
Entries == LoadEntries(gazetteer, aliases)

\* Occurrences <<start, end, entry>> of the registered patterns in t, read off the
\* text itself: the lower-cased substring equals the lower-cased pattern.
Occurrences(t) ==
    {o \in (0..Len(t)) \X (0..Len(t)) \X (1..Len(Entries)) :
        o[1] < o[2] /\ Lower(Slice(t, o[1], o[2])) = Lower(Entries[o[3]].pattern)}

\* The characters next to [s, e) in t, where there are any, are not alphanumeric.
AtWordBoundary(t, s, e) ==
    /\ s > 0 => ~IsAlnum(t[s])
    /\ e < Len(t) => ~IsAlnum(t[e + 1])

ReportedAs(m, o) ==
    m.start = o[1] /\ m.end = o[2] /\ m.pattern = Entries[o[3]].pattern

\* ms holds one match for each occurrence of occs and nothing else.
ReportsExactly(ms, occs) ==
    /\ Len(ms) = Cardinality(occs)
    /\ \A o \in occs : \E j \in 1..Len(ms) : ReportedAs(ms[j], o)
    /\ \A j \in 1..Len(ms) : \E o \in occs : ReportedAs(ms[j], o)

FindAllRunning == call = "find_all" /\ pc # "find_all"

\* C5: find_all with word_boundaries=False returns, and what it returns is exactly
\* one match for every registered pattern and every position where the lower-cased
\* substring equals the lower-cased pattern, suffixes of the followed pattern included.
C5_AllOccurrences ==
    (FindAllRunning /\ ~word_boundaries) =>
        /\ ~spin
        /\ pc # "raised"
        /\ pc = "done" => ReportsExactly(matches, Occurrences(text))

\* C6: find_all with word_boundaries=True returns exactly the occurrences whose
\* neighbouring characters are not alphanumeric; 'Mars' over 'Marshmallow is not
\* Mars' gives one match, at offset 19.
C6_WordBoundaryFilter ==
    (FindAllRunning /\ word_boundaries) =>
        /\ pc # "raised"
        /\ ~spin
        /\ pc = "done" =>
            /\ ReportsExactly(matches,
                   {o \in Occurrences(text) : AtWordBoundary(text, o[1], o[2])})
            /\ (gazetteer = ExampleWordBoundary.gazetteer /\ text = MarsText)
                   => (Len(matches) = 1 /\ matches[1].start = 19)

\* C7: find_all matches every occurrence of a pattern whatever its letter case, with
\* the type of the pattern, and the text of a match is the substring of the input as
\* typed; 'Cadbury' matches 3 times in 'CADBURY, cadbury, and Cadbury'.
C7_CaseInsensitive ==
    FindAllRunning =>
        /\ ~spin /\ pc # "raised"
        /\ pc = "done" =>
            /\ \A o \in Occurrences(text) :
                   (word_boundaries => AtWordBoundary(text, o[1], o[2]))
                       => \E j \in 1..Len(matches) :
                              /\ ReportedAs(matches[j], o)
                              /\ matches[j].type = Entries[o[3]].meta.type
            /\ \A j \in 1..Len(matches) :
                   matches[j].text = Slice(text, matches[j].start, matches[j].end)
            /\ (gazetteer = ExampleCase.gazetteer /\ text = CadburyText)
                   => /\ Len(matches) = 3
                      /\ \A j \in 1..3 : matches[j].type = TManufacturer

SpanLen(m) == m.end - m.start

\* The order of the stated rule: longer span first, then smaller start.
LongestFirst(a, b) ==
    SpanLen(a) > SpanLen(b) \/ (SpanLen(a) = SpanLen(b) /\ a.start < b.start)

\* The orders of ms the stated rule allows (matches of equal length and start may
\* come in any order).
GreedyOrders(ms) ==
    {p \in Permutations(1..Len(ms)) :
        \A j, k \in 1..Len(ms) : j < k => ~LongestFirst(ms[p[k]], ms[p[j]])}

\* Greedy acceptance: a match is accepted iff none of its positions is claimed.
RECURSIVE GreedyLoop(_, _)
GreedyLoop(ms, acc) ==
    IF ms = <<>> THEN acc
    ELSE GreedyLoop(Tail(ms),
                    IF \E a \in Range(acc) : Overlap(a, Head(ms)) THEN acc
                    ELSE Append(acc, Head(ms)))

\* C8 as stated: the resolver returns the set chosen by sorting the matches by span
\* length descending, then start ascending, and accepting greedily each match none
\* of whose positions is claimed by an accepted one.
C8_LongestGreedy ==
    Returned =>
        \E p \in GreedyOrders(matches) :
            Range(resolved) = Range(GreedyLoop([k \in 1..Len(matches) |-> matches[p[k]]], <<>>))

\* The order the resolver walks: start ascending, longer span first among equal
\* starts, find_all's order among equal spans.
WalkBefore(ms, j, k) ==
    \/ ms[j].start < ms[k].start
    \/ ms[j].start = ms[k].start /\ ms[j].end > ms[k].end
    \/ ms[j].start = ms[k].start /\ ms[j].end = ms[k].end /\ j < k

Walk(ms) ==
    [r \in 1..Len(ms) |->
        ms[CHOOSE j \in 1..Len(ms) :
               Cardinality({k \in 1..Len(ms) : WalkBefore(ms, k, j)}) = r - 1]]

Outranks(a, b) ==
    /\ a.type \in DOMAIN type_priority
    /\ b.type \in DOMAIN type_priority
    /\ type_priority[a.type] < type_priority[b.type]

\* The accepted list after the first n matches of the walk s: a match starting at or
\* after the end of the last accepted one is accepted; one starting before it takes
\* the place of the last accepted one iff it outranks it, and is dropped otherwise.
RECURSIVE AcceptedAfter(_, _)
AcceptedAfter(s, n) ==
    IF n = 0 THEN <<>>
    ELSE LET acc == AcceptedAfter(s, n - 1)
         IN  IF acc = <<>> \/ s[n].start >= acc[Len(acc)].end THEN Append(acc, s[n])
             ELSE IF Outranks(s[n], acc[Len(acc)])
             THEN Append(SubSeq(acc, 1, Len(acc) - 1), s[n])
             ELSE acc

\* C8 amended: the resolver returns the matches chosen by walking them by start
\* ascending (longer first among equal starts), accepting a match that starts at or
\* after the end of the last accepted one, and letting a match that starts before it
\* replace the last accepted one iff its type has strictly higher priority.
C8_LeftmostPriority ==
    Returned =>
        resolved = AcceptedAfter(Walk(matches), Len(matches))

\* C8 witness: a shorter match of higher priority is returned and the longer match
\* it overlaps is dropped.
C8_Witness ==
    /\ Returned
    /\ \E j, k \in 1..Len(matches) :
           /\ matches[k] \in Range(resolved)
           /\ matches[j] \notin Range(resolved)
           /\ Overlap(matches[j], matches[k])
           /\ SpanLen(matches[k]) < SpanLen(matches[j])
           /\ Outranks(matches[k], matches[j])

RecognizeEntitiesRunning == call = "recognize_entities" /\ pc # "recognize_entities"

\* pattern P occurs inside the longer pattern Q.
ContainsPattern(Q, P) ==
    /\ Len(Lower(P)) < Len(Lower(Q))
    /\ \E s \in 0..(Len(Lower(Q)) - Len(Lower(P))) :
           Slice(Lower(Q), s, s + Len(Lower(P))) = Lower(P)

\* C9: with patterns P and Q of one type, Q containing P, recognize_entities on a
\* text where Q occurs at word boundaries returns an entity for the span of Q and
\* none for a span inside it ('market' and 'market share' in 'Show market share
\* trends').
C9_LongestPreferred ==
    RecognizeEntitiesRunning =>
        /\ ~spin
        /\ pc # "raised"
        /\ pc = "done" =>
            \A o \in Occurrences(text) :
                (/\ AtWordBoundary(text, o[1], o[2])
                 /\ \E k \in 1..Len(Entries) :
                        /\ Entries[k].meta.type = Entries[o[3]].meta.type
                        /\ ContainsPattern(Entries[o[3]].pattern, Entries[k].pattern))
                => /\ \E j \in 1..Len(entities) :
                          entities[j].start = o[1] /\ entities[j].end = o[2]
                   /\ \A j \in 1..Len(entities) :
                          (o[1] <= entities[j].start /\ entities[j].end <= o[2])
                              => (entities[j].start = o[1] /\ entities[j].end = o[2])

Retained(m) ==
    \E j \in 1..Len(entities) :
        /\ entities[j].start = m.start
        /\ entities[j].end = m.end
        /\ entities[j].type = m.type

\* C10: of two overlapping raw matches whose types have different priority,
\* recognize_entities never returns the one of lower priority while dropping the one
\* of higher priority.
C10_PriorityRespected ==
    Returned =>
        \A j, k \in 1..Len(matches) :
            (Overlap(matches[j], matches[k]) /\ Outranks(matches[j], matches[k]))
                => ~(Retained(matches[k]) /\ ~Retained(matches[j]))

\* C11: recognize_entities returns, and for every alias record and every place where
\* the alias stands in the text at word boundaries the entities hold one entity on
\* that span whose metadata.display_name is the name of the record and whose text is
\* the substring as typed; 'I love Cadburys chocolate' gives one entity, with
\* display_name 'Cadbury'.
C11_AliasCanonical ==
    RecognizeEntitiesRunning =>
        /\ ~spin /\ pc # "raised"
        /\ pc = "done" =>
            /\ \A k \in 1..Len(aliases) : \A s \in 0..Len(text), e \in 0..Len(text) :
                   (/\ s < e
                    /\ Lower(Slice(text, s, e)) = Lower(aliases[k].alias)
                    /\ AtWordBoundary(text, s, e))
                   => \E j \in 1..Len(entities) :
                          /\ entities[j].start = s /\ entities[j].end = e
                          /\ entities[j].metadata.display_name = aliases[k].name
                          /\ entities[j].text = Slice(text, s, e)
            /\ (aliases = ExampleAlias.aliases /\ text = AliasText)
                   => (Len(entities) = 1 /\ entities[1].metadata.display_name = PCadbury)

\* The longest proper suffix of node n that is a node of the trie ch (the root is
\* the empty suffix).
LongestSuffixNode(ch, n) ==
    LET sufs == {Slice(n, k, Len(n)) : k \in 1..Len(n)} \cap DOMAIN ch
    IN  CHOOSE s \in sufs : \A r \in sufs : Len(r) <= Len(s)

C17_TruncatedScan ==
    (call = "recognize" /\ Len(request.text) > TruncLimit) =>
        /\ ~spin
        /\ pc = "returned" =>
            /\ \A k \in 1..Len(result[1].entities) : result[1].entities[k].end <= TruncLimit
            /\ StripTags(result[1].tagged_text) = Slice(request.text, 0, TruncLimit)
            /\ (/\ matcher # "None"
                /\ request.options.kind # "list"
                /\ "Idot" \notin Range(request.text)) => "error" \notin DOMAIN result[1]

\* The options of the running recognize call ask for fuzzy matching.
AsksFuzzy ==
    /\ request.options.kind = "dict"
    /\ request.options.has_fuzzy_matching
    /\ request.options.fuzzy_matching

\* C19: the enhancer's cache and confidence_threshold change only in the step of a
\* recognize call that follows exact matching, and only when the fuzzy_matching
\* option is true and the enhancer is enabled; when the option is false or absent,
\* or the enhancer is disabled, the call returns the entities and the tagged_text of
\* exact matching, with fuzzy_enabled false and no suggestions, and leaves the cache
\* and the threshold as they were.
C19_ExactOnlyFrame ==
    [][/\ (/\ call = "recognize"
           /\ (match_cache' # match_cache \/ confidence_threshold' # confidence_threshold))
          => (pc = "done" /\ AsksFuzzy /\ enabled)
       /\ (call = "recognize" /\ pc = "done" /\ pc' = "returned" /\ ~(AsksFuzzy /\ enabled))
          => /\ result'[1].entities = entities
             /\ result'[1].tagged_text = tagged_text
             /\ result'[1].fuzzy_enabled = FALSE
             /\ DOMAIN result'[1] \cap {"suggestions", "fuzzy_matches", "error"} = {}
             /\ match_cache' = match_cache
             /\ confidence_threshold' = confidence_threshold]_vars

\* A call with fuzzy_matching false and a threshold of its own has returned from an
\* enabled enhancer: exact entities, a word left unmatched, threshold untouched.
C19_Witness ==
    /\ call = "recognize" /\ pc = "returned" /\ enabled
    /\ request.options = DictOptions(TRUE, FALSE, TRUE, 90)
    /\ "error" \notin DOMAIN result[1]
    /\ result[1].entities # <<>>
    /\ FindUnmatchedSegments(text, entities) # <<>>
    /\ confidence_threshold = DefaultThreshold

\* C18: a matcher that is not enabled answers enhance_with_fuzzy_matching with no
\* fuzzy matches, no suggestions and the exact matches it was given, answers
\* find_fuzzy_matches with the empty list, raises in neither, and leaves the
\* match cache as it was.
C18_DisabledNoOp ==
    [][(call = "enhance" /\ ~enabled /\ pc' \in {"enhanced", "found", "raised"}) =>
          /\ pc' # "raised"
          /\ match_cache' = match_cache
          /\ pc' = "enhanced" =>
                 result' = <<[fuzzy_matches |-> <<>>, suggestions |-> <<>>,
                              enhanced_entities |-> entities']>>
          /\ pc' = "found" => result' = << <<>> >>]_vars

\* A disabled matcher has answered a text with an exact match and unmatched words.
C18_Witness ==
    /\ call = "enhance" /\ ~enabled /\ pc = "enhanced"
    /\ entities # <<>>
    /\ FindUnmatchedSegments(text, entities) # <<>>
    /\ result[1].enhanced_entities = entities

\* C20: in every enhancement call of a sequence the matcher's threshold splits the
\* fuzzy matches: the entity list is the exact matches followed by exactly the
\* fuzzy matches at or above the threshold, every suggestion is below it and
\* names an unmatched word of the text as its original query, and there are at
\* most MaxSuggestions suggestions.
C20_ThresholdSplit ==
    [][(call = "enhance" /\ pc' = "enhanced") =>
          LET r == result'[1]
              merged == SubSeq(r.enhanced_entities, Len(entities') + 1,
                               Len(r.enhanced_entities))
          IN  /\ confidence_threshold' = confidence_threshold
              /\ Len(r.enhanced_entities) >= Len(entities')
              /\ SubSeq(r.enhanced_entities, 1, Len(entities')) = entities'
              /\ \A k \in 1..Len(merged) :
                     /\ merged[k].match_type = "fuzzy"
                     /\ merged[k].confidence >= confidence_threshold
              /\ merged = SelectSeq(r.fuzzy_matches,
                                    LAMBDA m : m.confidence >= confidence_threshold)
              /\ Len(r.suggestions) <= MaxSuggestions
              /\ \A k \in 1..Len(r.suggestions) :
                     /\ r.suggestions[k].confidence < confidence_threshold
                     /\ r.suggestions[k].original_query
                            \in Range(FindUnmatchedSegments(text', entities'))
                     /\ \E j \in 1..Len(r.fuzzy_matches) :
                            /\ r.fuzzy_matches[j].text = r.suggestions[k].text
                            /\ r.fuzzy_matches[j].confidence = r.suggestions[k].confidence]_vars

\* An enhancement under the threshold 90 kept the exact match, merged a match of
\* confidence 95 and returned MaxSuggestions suggestions out of six matches of
\* confidence 85 that an earlier call had cached.
C20_Witness ==
    /\ call = "enhance" /\ enabled /\ pc = "enhanced"
    /\ confidence_threshold = 90
    /\ entities # <<>>
    /\ Len(result[1].enhanced_entities) > Len(entities)
    /\ Len(result[1].suggestions) = MaxSuggestions
    /\ Len(SelectSeq(result[1].fuzzy_matches, LAMBDA m : m.confidence < 90)) > MaxSuggestions

\* The patterns and types a vocabulary loads into its matcher.
LoadedPatterns(mo) ==
    {[pattern |-> e.pattern, type |-> e.meta.type] : e \in Range(LoadEntries(mo.gazetteer, mo.aliases))}

\* C12: a reload never changes a matcher object that exists: it builds a new one
\* and moves the service's reference to it; a call keeps the matcher object it
\* started to scan on, and every match it collects is a pattern of that object's
\* vocabulary with the type that vocabulary gives it.
C12_HotSwapIsolation ==
    [][/\ \A g \in DOMAIN matchers : g \in DOMAIN matchers' /\ matchers'[g] = matchers[g]
       /\ self_matcher' # self_matcher => self_matcher' \notin DOMAIN matchers
       /\ \A c \in DOMAIN calls :
             /\ calls[c].pc # "idle" => calls'[c].m = calls[c].m
             /\ calls'[c].pc # "idle" =>
                    \A k \in 1..Len(calls'[c].matches) :
                        [pattern |-> calls'[c].matches[k].pattern,
                         type |-> calls'[c].matches[k].type]
                            \in LoadedPatterns(matchers'[calls'[c].m])]_vars

\* A call that was scanning on the first matcher while the reload installed the
\* second one has returned the entity of the first vocabulary.
C12_Witness ==
    \E c \in DOMAIN calls :
        /\ calls[c].pc = "returned"
        /\ calls[c].overtaken
        /\ calls[c].m = 1 /\ self_matcher = 2
        /\ Len(calls[c].result[1].entities) = 1
        /\ calls[c].result[1].entities[1].type = TManufacturer

\* C13: in a recognize call the FuzzyMatcher whose threshold is set and the
\* FuzzyMatcher that enhances are of the vocabulary of the matcher that scanned.
C13_OneGeneration ==
    \A c \in DOMAIN calls :
        /\ calls[c].f_threshold # 0 =>
               fuzzy_matchers[calls[c].f_threshold].gazetteer = matchers[calls[c].m].gazetteer
        /\ calls[c].f # 0 =>
               fuzzy_matchers[calls[c].f].gazetteer = matchers[calls[c].m].gazetteer

\* What a recognize call with fuzzy matching returns on a service of the first
\* generation on which nothing else has run.
RunAlone(fr) ==
    LET v == LoadedVocabulary(0)
        index == BuildSearchIndex(v.gazetteer, v.aliases)
        segments == FindUnmatchedSegments(fr.text, fr.entities)
        e == EnhanceWithFuzzyMatching(index, GetConfidenceThreshold(fr.options), <<>>,
                                      fr.text, fr.entities,
                                      [k \in 1..Len(segments) |-> Close(Len(index.all))])
    IN  [tagged_text |-> fr.tagged_text, entities |-> e.enhanced_entities,
         suggestions |-> e.suggestions, fuzzy_matches |-> e.fuzzy_matches,
         fuzzy_enabled |-> TRUE]

\* C14: as long as no reload has run, a recognize call with fuzzy matching returns
\* what it returns when it runs alone, whatever other calls do.
C14_AsIfAlone ==
    (reloader.pc = "idle" /\ reloader.reloads = 0) =>
        \A c \in DOMAIN calls :
            (calls[c].pc = "returned" /\ GetFuzzyMatching(calls[c].options)) =>
                calls[c].result[1] = RunAlone(calls[c])

\* The cached results of a FuzzyMatcher are entries of its own search index.
OwnEntries(fo) ==
    LET index == BuildSearchIndex(fo.gazetteer, fo.aliases)
    IN  \A token \in DOMAIN fo.cache :
            \A k \in 1..Len(fo.cache[token]) :
                /\ fo.cache[token][k].text \in Range(index.all)
                /\ fo.cache[token][k].type = index.meta[fo.cache[token][k].text].type

\* C15: a reload gives the service a new FuzzyMatcher of the loaded vocabulary
\* with an empty cache and leaves the existing ones their vocabulary; every entry
\* of a FuzzyMatcher's cache was computed from that FuzzyMatcher's own index;
\* and when the reload has completed, the FuzzyMatcher in use is of the loaded
\* vocabulary and its cache is empty.
C15_CachePerGeneration ==
    [][/\ \A g \in DOMAIN fuzzy_matchers :
             /\ g \in DOMAIN fuzzy_matchers'
             /\ fuzzy_matchers'[g].gazetteer = fuzzy_matchers[g].gazetteer
             /\ fuzzy_matchers'[g].aliases = fuzzy_matchers[g].aliases
       /\ \A g \in DOMAIN fuzzy_matchers' :
             /\ g \notin DOMAIN fuzzy_matchers => fuzzy_matchers'[g].cache = <<>>
             /\ OwnEntries(fuzzy_matchers'[g])
       /\ (reloader.pc = "fuzzy" /\ reloader'.pc = "clear") =>
             /\ self_fuzzy_matcher' \notin DOMAIN fuzzy_matchers
             /\ fuzzy_matchers'[self_fuzzy_matcher'].gazetteer
                    = LoadedVocabulary(reloader.reloads + 1).gazetteer
       /\ (reloader.pc = "clear" /\ reloader'.pc = "idle") =>
             /\ fuzzy_matchers'[self_fuzzy_matcher'].cache = <<>>
             /\ fuzzy_matchers'[self_fuzzy_matcher'].gazetteer
                    = LoadedVocabulary(reloader'.reloads).gazetteer]_vars

\* After a reload a lookup was cached by the new FuzzyMatcher while the old one
\* still holds the entry it cached under the previous vocabulary.
C15_Witness ==
    /\ reloader.pc = "idle" /\ reloader.reloads = 1
    /\ self_fuzzy_matcher = 2
    /\ fuzzy_matchers[1].cache # <<>>
    /\ fuzzy_matchers[2].cache # <<>>
    /\ \E c \in DOMAIN calls : calls[c].pc = "returned" /\ calls[c].f = 2

\* The characters of a text are all part of stopwords standing alone: the text is
\* one stopword.
OnlyStopwords(t) == Lower(t) \in stopwords

\* C21: no pattern registered in the automaton of a constructed EntityMatcher is
\* empty or, ignoring case, a stopword; a text that is a stopword yields no
\* entity.
C21_NoStopwordPattern ==
    /\ \A n \in DOMAIN outputs :
           \A k \in 1..Len(outputs[n]) :
               /\ outputs[n][k].pattern # <<>>
               /\ Lower(outputs[n][k].pattern) \notin stopwords
    /\ (Returned /\ OnlyStopwords(text)) => entities = <<>>

\* The type names of the contract.
TSpecial == <<"s", "p", "e", "c", "i", "a", "l">>

ContractTypes == {TManufacturer, TBrand, TProduct, TCategory, TMetric, TTimePeriod, TSpecial}

\* The lowered names the gazetteer lists under the group key.
NamesUnder(key) ==
    UNION {{Lower(e) : e \in Range(g.names)} : g \in {h \in Range(gazetteer.entities) : h.key = key}}

\* The lowered surface forms the vocabulary holds outside the categories group.
NamesElsewhere ==
    UNION {{Lower(e) : e \in Range(g.names)} :
               g \in {h \in Range(gazetteer.entities) : h.key # GCategories}}
        \cup {Lower(a.alias) : a \in Range(aliases)}
        \cup {Lower(w) : w \in Range(gazetteer.metrics) \cup Range(gazetteer.timewords)}

\* C22: every entity recognize_entities returns has a type of the contract, and
\* an entity matched by a name that only the "categories" group lists has the
\* type "category".
C22_TypeNames ==
    Returned =>
        \A k \in 1..Len(entities) :
            /\ entities[k].type \in ContractTypes
            /\ Lower(entities[k].text) \in NamesUnder(GCategories) \ NamesElsewhere
                   => entities[k].type = TCategory

\* C23: every match find_all collects lies inside the text, 0 <= start < end <=
\* len(text), its text is text[start:end], and its span is as long as its pattern.
C23_SpanInText ==
    FindAllRunning =>
        \A k \in 1..Len(matches) :
            /\ 0 <= matches[k].start
            /\ matches[k].start < matches[k].end
            /\ matches[k].end <= Len(text)
            /\ matches[k].text = Slice(text, matches[k].start, matches[k].end)
            /\ matches[k].end - matches[k].start = Len(matches[k].pattern)

\* The type name with a hyphen for every underscore.
RECURSIVE WithHyphens(_)
WithHyphens(ty) ==
    IF ty = <<>> THEN <<>>
    ELSE (IF Head(ty) = "_" THEN <<"-">> ELSE <<Head(ty)>>) \o WithHyphens(Tail(ty))

\* The text from position last on, with the entities k, k+1, ... wrapped in their
\* tags and the runs between them copied.
RECURSIVE TaggedFrom(_, _, _, _)
TaggedFrom(t, ents, k, last) ==
    IF k > Len(ents) THEN Slice(t, last, Len(t))
    ELSE Slice(t, last, ents[k].start)
            \o <<"<">> \o WithHyphens(ents[k].type) \o <<">">>
            \o Slice(t, ents[k].start, ents[k].end)
            \o <<"<", "/">> \o WithHyphens(ents[k].type) \o <<">">>
            \o TaggedFrom(t, ents, k + 1, ents[k].end)

\* C24: tagged_text is, from left to right, the unmatched runs of the text as they
\* are and, for each entity, <t>text[start:end]</t> with t the entity's type
\* written with hyphens for underscores; the entity records keep the type of the
\* vocabulary, underscore included.
C24_TaggedText ==
    Returned =>
        /\ [k \in 1..Len(tagged_text) |-> tagged_text[k].c] = TaggedFrom(text, entities, 1, 0)
        /\ \A k \in 1..Len(entities) :
               \E e \in Range(LoadEntries(gazetteer, aliases)) :
                   /\ e.meta.display_name = entities[k].metadata.display_name
                   /\ e.meta.type = entities[k].type

\* A time word was recognized: its tag is written with a hyphen, its record with
\* the underscore.
C24_Witness ==
    /\ Returned
    /\ \E k \in 1..Len(entities) : entities[k].type = TTimePeriod
    /\ "-" \in {tagged_text[k].c : k \in 1..Len(tagged_text)}
    /\ "_" \notin {tagged_text[k].c : k \in 1..Len(tagged_text)}

\* C25: when recognize enhances, the entities it returns are the exact entities of
\* recognize_entities, each as it was and in the same order, followed by fuzzy
\* matches only, all of them at or above the threshold of the call.
C25_ExactPreserved ==
    [][(call = "recognize" /\ pc = "done" /\ pc' = "returned"
           /\ "fuzzy_matches" \in DOMAIN result'[1]) =>
          LET r == result'[1]
              added == SubSeq(r.entities, Len(entities) + 1, Len(r.entities))
          IN  /\ r.fuzzy_enabled
              /\ entities' = entities
              /\ Len(r.entities) >= Len(entities)
              /\ SubSeq(r.entities, 1, Len(entities)) = entities
              /\ \A k \in 1..Len(added) :
                     /\ added[k].match_type = "fuzzy"
                     /\ added[k].confidence >= GetConfidenceThreshold(request.options)
                     /\ added[k] \in Range(r.fuzzy_matches)]_vars

\* An enhancing call has returned an exact entity followed by a fuzzy match.
C25_Witness ==
    /\ call = "recognize" /\ pc = "returned"
    /\ "fuzzy_matches" \in DOMAIN result[1]
    /\ entities # <<>>
    /\ Len(result[1].entities) > Len(entities)


\* C26: of the raw matches that cover one span, the resolved entities keep
\* exactly one, and it is the first of them in the sorted order (the sort is
\* stable, so the first found), whatever the types of the others.
SameSpan(a, b) == a.start = b.start /\ a.end = b.end

SharedSpan(j) == \E k \in 1..Len(matches) : k # j /\ SameSpan(matches[k], matches[j])

FirstOfSpan(j) == \A m \in 1..(j - 1) : ~SameSpan(matches[m], matches[j])

Undisputed(j) == \A m \in 1..Len(matches) :
    Overlap(matches[m], matches[j]) => SameSpan(matches[m], matches[j])

C26_FirstOfEqualSpans ==
    Returned => \A j \in 1..Len(matches) : (SharedSpan(j) /\ FirstOfSpan(j)) =>
        LET kept == {n \in 1..Len(entities) : SameSpan(entities[n], matches[j])}
        IN  /\ Cardinality(kept) <= 1
            /\ Undisputed(j) => Cardinality(kept) = 1
            /\ \A n \in kept :
                   /\ entities[n].type = matches[j].type
                   /\ entities[n].metadata.display_name = matches[j].display_name


\* C27: _find_unmatched_segments(text, entities) returns, from left to right,
\* exactly the maximal runs of word characters of length >= 2 that lie outside
\* every exact-match span: no token touches a position inside a span, and no
\* such run is left out.
Covered(ents, p) == \E k \in 1..Len(ents) : ents[k].start <= p /\ p < ents[k].end

Free(t, ents, p) == p \in 0..(Len(t) - 1) /\ ~Covered(ents, p) /\ IsWordChar(t[p + 1])

GapRuns(t, ents) ==
    {r \in (0..Len(t)) \X (0..Len(t)) :
        /\ r[2] - r[1] >= 2
        /\ \A p \in r[1]..(r[2] - 1) : Free(t, ents, p)
        /\ ~Free(t, ents, r[1] - 1)
        /\ ~Free(t, ents, r[2])}

RECURSIVE RunsInOrder(_, _)
RunsInOrder(t, runs) ==
    IF runs = {} THEN <<>>
    ELSE LET r == CHOOSE x \in runs : \A y \in runs : x[1] <= y[1]
         IN  <<Slice(t, r[1], r[2])>> \o RunsInOrder(t, runs \ {r})

C27_UnmatchedSegments ==
    Returned => FindUnmatchedSegments(text, entities) = RunsInOrder(text, GapRuns(text, entities))

C27_Witness ==
    /\ Returned
    /\ entities # <<>>
    /\ FindUnmatchedSegments(text, entities) # <<>>
    /\ \E p \in 0..(Len(text) - 1) : ~Covered(entities, p) /\ ~IsWordChar(text[p + 1])


\* C28: the search index built from the loader's gazetteer and aliases holds
\* every canonical entity name, every metric word, every time word and every
\* alias exactly once, with its canonical name and a type of the contract.
VocabularyWords(g, al) ==
    {[text |-> w, name |-> w] :
        w \in (UNION {Range(g.entities[k].names) : k \in 1..Len(g.entities)})
               \cup Range(g.metrics) \cup Range(g.timewords)}
    \cup {[text |-> al[k].alias, name |-> al[k].name] : k \in 1..Len(al)}

C28_FullVocabularyIndexed ==
    LET index == BuildSearchIndex(gazetteer, aliases)
    IN  \A w \in VocabularyWords(gazetteer, aliases) : w.text # <<>> =>
            /\ Cardinality({k \in 1..Len(index.all) : index.all[k] = w.text}) = 1
            /\ w.text \in DOMAIN index.meta
            /\ index.meta[w.text].full_name = w.name
            /\ index.meta[w.text].type \in ContractTypes


\* C30: a find_fuzzy_matches call answered from the cache returns the list a
\* fresh computation under the threshold now in force would return, whatever
\* calls came before.
Afresh(token) ==
    LET index == BuildSearchIndex(gazetteer, aliases)
    IN  FindFuzzyMatches(index, confidence_threshold, <<>>, token, MaxMatches,
                         Scored(Len(index.all), token)).results

C30_CacheAsFresh ==
    [][(call = "enhance" /\ pc' = "found" /\ enabled /\ text' \in DOMAIN match_cache)
          => result'[1] = Afresh(text')]_vars


\* C29: find_fuzzy_matches returns at most max_matches results, best
\* confidence first, each with a confidence at or above the threshold in force.
C29_BoundedRankedAboveThreshold ==
    (call = "enhance" /\ pc = "found") =>
        LET results == result[1]
        IN  /\ Len(results) <= MaxMatches
            /\ \A k \in 1..(Len(results) - 1) :
                   results[k].confidence >= results[k + 1].confidence
            /\ \A k \in 1..Len(results) : results[k].confidence >= confidence_threshold


\* C39: build_failure_links run once more on a built automaton leaves the
\* outputs of every node (and the failure links) as they are.
C39_BuildIdempotent ==
    patterns_added =>
        LET again == BuildFailureLinks(children, outputs, failure)
        IN  again.outputs = outputs /\ again.failure = failure


-----------------------------------------------------------------------------
(* recognize_cached: the module-level lru_cache in front of recognize, on  *)
(* a service whose artifacts are reloaded.  The calls run one at a time.   *)

\* Texts whose scan ends under both generations.
CachedTexts == {<<"b">>}

\* find_all(text, word_boundaries=True) on the automaton mo, from position idx.
RECURSIVE ScanFrom(_, _, _, _, _)
ScanFrom(mo, t, idx, node, ms) ==
    LET st == SearchText(FALSE, t)
    IN  IF idx = Len(st) THEN [hangs |-> FALSE, raised |-> FALSE, matches |-> ms]
        ELSE LET w == FollowFailures(mo, node, st[idx + 1])
                 nxt == Append(w.node, st[idx + 1])
                 out == EmitOutputs(t, FALSE, TRUE, mo.outputs[nxt], idx, 1,
                                    [raised |-> FALSE, matches |-> ms])
             IN  IF w.hangs THEN [hangs |-> TRUE, raised |-> FALSE, matches |-> ms]
                 ELSE IF out.raised THEN [hangs |-> FALSE, raised |-> TRUE, matches |-> ms]
                 ELSE ScanFrom(mo, t, idx + 1, nxt, out.matches)

\* service.recognize(text, options) of lines 76-161 on the matcher mo and a
\* FuzzyMatcher with the index of (g, al) and the cache given; ms is the elapsed
\* time it stamps.  The texts are under the length limit.
RecognizeOnce(mo, g, al, en, cache, t, options, ms) ==
    LET scan == ScanFrom(mo, t, 0, Root, <<>>)
        res == ResolveOverlaps(scan.matches)
        ents == [k \in 1..Len(res) |-> EntityRecord(res[k])]
        tagged == GenerateTaggedText(t, res)
        index == BuildSearchIndex(g, al)
        segments == FindUnmatchedSegments(t, ents)
        f == EnhanceWithFuzzyMatching(index, GetConfidenceThreshold(options), cache, t, ents,
                                      [k \in 1..Len(segments) |-> Close(Len(index.all))])
    IN  IF scan.raised
        THEN [hangs |-> FALSE, cache |-> cache, enhanced |-> FALSE,
              result |-> ErrorResult(t, ms, "string index out of range")]
        ELSE IF GetFuzzyMatching(options) /\ en
        THEN [hangs |-> scan.hangs, cache |-> f.cache, enhanced |-> TRUE,
              result |-> [tagged_text |-> tagged, entities |-> f.enhanced_entities,
                          suggestions |-> f.suggestions, fuzzy_matches |-> f.fuzzy_matches,
                          fuzzy_enabled |-> TRUE, processing_time_ms |-> ms]]
        ELSE [hangs |-> scan.hangs, cache |-> cache, enhanced |-> FALSE,
              result |-> [tagged_text |-> tagged, entities |-> ents, fuzzy_enabled |-> FALSE,
                          processing_time_ms |-> ms]]

\* json.dumps(result, sort_keys=True): the keys in sorted order with their values;
\* json.loads of it gives back a dict with these keys and values.
JsonDumps(r) == [k \in DOMAIN r |-> r[k]]

JsonLoads(j) == [k \in DOMAIN j |-> j[k]]

\* options = {"fuzzy_matching": fuzzy_matching} if fuzzy_matching else None
CachedOptions(fuzzy_matching) ==
    IF fuzzy_matching THEN DictOptions(TRUE, TRUE, FALSE, DefaultThreshold) ELSE NoOptions

InstalledMatcher == [children |-> children, outputs |-> outputs, failure |-> failure]

\* A service constructed from the first generation; nothing was asked yet.
InitCached ==
    \E rapidfuzz \in BOOLEAN :
        /\ InitMatcher(LoadedVocabulary(0).gazetteer, LoadedVocabulary(0).aliases, TRUE)
        /\ call = "recognize_cached"
        /\ word_boundaries = TRUE
        /\ text = <<>>
        /\ pc = "idle"
        /\ matches = <<>>
        /\ NoCallState
        /\ matcher = "EntityMatcher"
        /\ request = [text |-> <<>>, options |-> NoOptions]
        /\ start_time = 0
        /\ result = <<>>
        /\ enabled = rapidfuzz
        /\ confidence_threshold = DefaultThreshold
        /\ match_cache = <<>>

cached_frame == <<call, word_boundaries, case_sensitive, patterns_added, scan_vars, result_vars,
                  matcher, start_time, matchers, fuzzy_matchers, self_matcher,
                  self_fuzzy_matcher, calls, cache_vars, loader_vars, admin_vars>>

\* recognize_cached(text, fuzzy_matching), lines 209-213 with _cached_recognize,
\* lines 198-206: a key in the lru_cache is answered from it; otherwise recognize
\* runs on the service as it is now and its JSON is stored under the key.
RecognizeCached ==
    /\ call = "recognize_cached"
    /\ \E t \in CachedTexts, fuzzy_matching \in BOOLEAN, now \in Clock :
        LET key == <<t, fuzzy_matching>>
            options == CachedOptions(fuzzy_matching)
        IN
        \E r \in {RecognizeOnce(InstalledMatcher, gazetteer, aliases, enabled, match_cache, t,
                                options, ElapsedMs(now, 0))} :
            /\ text' = t
            /\ request' = [text |-> t, options |-> options]
            /\ IF key \in DOMAIN lru_cache
               THEN /\ result' = <<JsonLoads(lru_cache[key])>>
                    /\ pc' = "hit"
                    /\ UNCHANGED <<lru_cache, match_cache, confidence_threshold>>
               ELSE /\ ~r.hangs
                    /\ lru_cache' = (key :> JsonDumps(r.result)) @@ lru_cache
                    /\ result' = <<JsonLoads(JsonDumps(r.result))>>
                    /\ match_cache' = r.cache
                    /\ confidence_threshold' =
                           IF r.enhanced THEN GetConfidenceThreshold(options)
                           ELSE confidence_threshold
                    /\ pc' = "miss"
    /\ UNCHANGED <<cached_frame, gazetteer, aliases, children, outputs, failure, enabled,
                   reloader>>

\* reload_artifacts, lines 163-170: _load_artifacts builds the matcher and a new
\* FuzzyMatcher from what the loader holds, then the fuzzy cache is cleared.
ReloadArtifacts ==
    /\ call = "recognize_cached"
    /\ reloader.reloads < MaxReloads
    /\ LET v == LoadedVocabulary(reloader.reloads + 1)
           m == NewEntityMatcher(v.gazetteer, v.aliases)
       IN  /\ gazetteer' = v.gazetteer
           /\ aliases' = v.aliases
           /\ children' = m.children
           /\ outputs' = m.outputs
           /\ failure' = m.failure
    /\ match_cache' = <<>>
    /\ confidence_threshold' = DefaultThreshold
    /\ reloader' = [reloader EXCEPT !.reloads = @ + 1]
    /\ pc' = "reloaded"
    /\ UNCHANGED <<cached_frame, text, request, result, enabled, lru_cache>>

NextCached == RecognizeCached \/ ReloadArtifacts

CachedSpec == InitCached /\ [][NextCached]_vars

\* The result without its time stamp.
WithoutTime(r) == [k \in (DOMAIN r) \ {"processing_time_ms"} |-> r[k]]

\* C31: after a reload has installed a new vocabulary, recognize_cached returns
\* what recognize computes on the vocabulary now installed (the time stamp
\* aside), also for a text asked before the reload.
C31_CachedFollowsReload ==
    (call = "recognize_cached" /\ pc \in {"hit", "miss"} /\ reloader.reloads > 0) =>
        WithoutTime(result[1]) =
            WithoutTime(RecognizeOnce(InstalledMatcher, gazetteer, aliases, enabled, match_cache,
                                      text, request.options, 0).result)


-----------------------------------------------------------------------------
(* CacheManager (services/cache_manager.py) and the cache_result           *)
(* decorator.  A Python value is a record: its type, the form of its       *)
(* content and the content; the JSON text of a dict is a str of form       *)
(* "json-dict".  TTLs are in seconds, 0 for a key without expiry.          *)

\* Operations on the manager are counted up to this bound.
MaxOps == 3

PyNone == [kind |-> "None", form |-> "value", body |-> "None"]
PyBool(b) == [kind |-> "bool", form |-> "value", body |-> IF b THEN "True" ELSE "False"]
PyStr(x) == [kind |-> "str", form |-> "plain", body |-> x]
PyDigits(x) == [kind |-> "str", form |-> "digits", body |-> x]
PyInt(x) == [kind |-> "int", form |-> "value", body |-> x]
PyDict(x) == [kind |-> "dict", form |-> "value", body |-> x]
PyList(x) == [kind |-> "list", form |-> "value", body |-> x]

\* set, lines 158-160: "if isinstance(value, (dict, list)): value = json.dumps(value)"
Serialize(v) ==
    IF v.kind = "dict" THEN [kind |-> "str", form |-> "json-dict", body |-> v.body]
    ELSE IF v.kind = "list" THEN [kind |-> "str", form |-> "json-list", body |-> v.body]
    ELSE v

\* What Redis keeps and hands back with decode_responses=True: a str.
Stored(v) == IF v.kind = "int" THEN PyDigits(v.body) ELSE v

\* get, lines 119-122: json.loads(value), the value itself when that fails.
Deserialize(v) ==
    IF v.form = "json-dict" THEN PyDict(v.body)
    ELSE IF v.form = "json-list" THEN PyList(v.body)
    ELSE IF v.form = "digits" THEN PyInt(v.body)
    ELSE v

\* bool(value) of Python.
Truthy(v) == ~(v.kind = "None" \/ v.body \in {"", "[]", "{}", "0", "False"})

TtlArtifacts == 24 * 3600

TtlResult == 300

Bump(cm, counter) == [cm EXCEPT !.stats[counter] = @ + 1]

\* CacheManager.get(key), lines 99-135.
CacheGet(cm, rd, key) ==
    IF ~cm.enabled THEN [cm |-> Bump(cm, "misses"), value |-> PyNone]
    ELSE IF ~rd.up THEN [cm |-> Bump(cm, "errors"), value |-> PyNone]
    ELSE IF key \in DOMAIN rd.data
    THEN [cm |-> Bump(Bump(cm, "total_requests"), "hits"),
          value |-> Deserialize(rd.data[key].value)]
    ELSE [cm |-> Bump(Bump(cm, "total_requests"), "misses"), value |-> PyNone]

\* A set that drops the TTL it is given.
CacheSetNoTtl(cm, rd, key, value, ttl_seconds, ttl) ==
    IF ~cm.enabled THEN [cm |-> cm, rd |-> rd, ok |-> FALSE]
    ELSE IF ~rd.up THEN [cm |-> Bump(cm, "errors"), rd |-> rd, ok |-> FALSE]
    ELSE [cm |-> cm,
          rd |-> [rd EXCEPT !.data = (key :> [value |-> Stored(Serialize(value)),
                                              ttl |-> 0]) @@ @],
          ok |-> TRUE]

\* CacheManager.set(key, value, ttl_seconds, ttl), lines 137-177; a TTL of 0 is
\* "no TTL given" to the tests of lines 163 and 165.
CacheSet(cm, rd, key, value, ttl_seconds, ttl) ==
    IF ~cm.enabled THEN [cm |-> cm, rd |-> rd, ok |-> FALSE]
    ELSE IF ~rd.up THEN [cm |-> Bump(cm, "errors"), rd |-> rd, ok |-> FALSE]
    ELSE LET expiry == IF ttl # 0 THEN ttl ELSE ttl_seconds
         IN  [cm |-> cm,
              rd |-> [rd EXCEPT !.data = (key :> [value |-> Stored(Serialize(value)),
                                                  ttl |-> expiry]) @@ @],
              ok |-> TRUE]

Without(f, key) == [k \in (DOMAIN f) \ {key} |-> f[k]]

\* CacheManager.delete(key), lines 179-195.
CacheDelete(cm, rd, key) ==
    IF ~cm.enabled \/ ~rd.up THEN [rd |-> rd, ok |-> FALSE]
    ELSE [rd |-> [rd EXCEPT !.data = Without(@, key)], ok |-> key \in DOMAIN rd.data]

\* CacheManager.warm_cache(artifacts), lines 276-311, with both artifacts given.
WarmCache(cm, rd, gaz, al) ==
    IF ~cm.enabled THEN [cm |-> cm, rd |-> rd, ok |-> FALSE]
    ELSE LET g == CacheSet(cm, rd, "entity:gazetteer", gaz, 0, TtlArtifacts)
             a == CacheSet(g.cm, g.rd, "entity:aliases", al, 0, TtlArtifacts)
         IN  [cm |-> a.cm, rd |-> a.rd, ok |-> TRUE]

\* The method the tests wrap: test_method(self, arg1).
MethodArgs == {"a", "b"}

Method(arg) == IF arg = "a" THEN PyStr("result_a") ELSE PyDict("result_b")

\* cache_key = f"result:{func.__name__}:{str(args)}:{str(kwargs)}"
ResultKey(arg) == IF arg = "a" THEN "result:test_method:('a',):{}" ELSE "result:test_method:('b',):{}"

\* The keys and values of the direct get, set and delete calls.
CacheKeys == {ResultKey("a"), "entity:gazetteer"}

CacheValues == {PyDigits("1")}

StatsTotal(cm) == cm.stats.hits + cm.stats.misses + cm.stats.errors

\* CacheManager(): enabled when the redis package is there and the server
\* answered the ping; the object under the decorator has the manager or not.
InitCache ==
    \E attached \in BOOLEAN, connected \in BOOLEAN :
        /\ InitMatcher(VocabFuzzy.gazetteer, VocabFuzzy.aliases, TRUE)
        /\ call = "cache"
        /\ word_boundaries = TRUE
        /\ text = <<>>
        /\ pc = "idle"
        /\ matches = <<>>
        /\ i = 0
        /\ current = Root
        /\ spin = FALSE
        /\ resolved = <<>>
        /\ tagged_text = <<>>
        /\ entities = <<>>
        /\ NoServiceState
        /\ matchers = <<>>
        /\ fuzzy_matchers = <<>>
        /\ self_matcher = 0
        /\ self_fuzzy_matcher = 0
        /\ calls = <<>>
        /\ reloader = [pc |-> "idle", reloads |-> 0]
        /\ lru_cache = <<>>
        /\ cache_manager = [attached |-> attached, enabled |-> connected,
                            stats |-> [hits |-> 0, misses |-> 0, errors |-> 0,
                                       total_requests |-> 0]]
        /\ redis = [up |-> connected, data |-> <<>>]
        /\ executions = 0
        /\ loader = [gazetteer |-> PyDict("{}"), aliases |-> PyList("[]"), loaded |-> FALSE]
        /\ files = "missing"
        /\ NoAdminState

engine_vars == <<call_vars, matcher_vars, scan_vars, result_vars, matcher, request, start_time,
                 enabled, confidence_threshold, match_cache, conc_vars>>

cache_frame == <<engine_vars, lru_cache, loader_vars, admin_vars>>

Budget == StatsTotal(cache_manager) + executions < MaxOps

Get ==
    /\ call = "cache" /\ Budget
    /\ \E key \in CacheKeys :
        \E r \in {CacheGet(cache_manager, redis, key)} :
            /\ cache_manager' = r.cm
            /\ result' = <<r.value>>
    /\ pc' = "get"
    /\ UNCHANGED <<cache_frame, redis, executions>>

Set ==
    /\ call = "cache" /\ Budget
    /\ \E key \in CacheKeys, value \in CacheValues, ttl_seconds \in {0, TtlResult} :
        \E r \in {CacheSet(cache_manager, redis, key, value, ttl_seconds, 0)} :
            /\ cache_manager' = r.cm
            /\ redis' = r.rd
            /\ result' = <<PyBool(r.ok)>>
    /\ pc' = "set"
    /\ UNCHANGED <<cache_frame, executions>>

Delete ==
    /\ call = "cache" /\ Budget
    /\ \E key \in CacheKeys :
        \E r \in {CacheDelete(cache_manager, redis, key)} :
            /\ redis' = r.rd
            /\ result' = <<PyBool(r.ok)>>
    /\ pc' = "delete"
    /\ UNCHANGED <<cache_frame, cache_manager, executions>>

Warm ==
    /\ call = "cache" /\ Budget
    /\ \E r \in {WarmCache(cache_manager, redis, PyDict("gazetteer"), PyList("aliases"))} :
            /\ cache_manager' = r.cm
            /\ redis' = r.rd
            /\ result' = <<PyBool(r.ok)>>
    /\ pc' = "warm_cache"
    /\ UNCHANGED <<cache_frame, executions>>

\* wrapper(self, *args, **kwargs) of cache_result(ttl_seconds=300), lines 334-350.
WrappedCall ==
    /\ call = "cache" /\ Budget
    /\ \E arg \in MethodArgs :
        IF ~cache_manager.attached \/ ~cache_manager.enabled
        THEN /\ result' = <<Method(arg)>>
             /\ executions' = executions + 1
             /\ UNCHANGED <<cache_manager, redis>>
        ELSE \E cached \in {CacheGet(cache_manager, redis, ResultKey(arg))} :
             IF cached.value # PyNone
             THEN /\ result' = <<cached.value>>
                  /\ cache_manager' = cached.cm
                  /\ UNCHANGED <<redis, executions>>
             ELSE \E stored \in {CacheSet(cached.cm, redis, ResultKey(arg), Method(arg),
                                          TtlResult, 0)} :
                  /\ result' = <<Method(arg)>>
                  /\ executions' = executions + 1
                  /\ cache_manager' = stored.cm
                  /\ redis' = stored.rd
    /\ pc' = "wrapped"
    /\ UNCHANGED cache_frame

\* The Redis server stops answering, or answers again.
StoreFails ==
    /\ call \in {"cache", "loader"}
    /\ cache_manager.enabled /\ redis.up
    /\ redis' = [redis EXCEPT !.up = FALSE]
    /\ pc' = "down"
    /\ UNCHANGED <<cache_frame, cache_manager, executions, result>>

StoreRecovers ==
    /\ call \in {"cache", "loader"}
    /\ cache_manager.enabled /\ ~redis.up
    /\ redis' = [redis EXCEPT !.up = TRUE]
    /\ pc' = "up"
    /\ UNCHANGED <<cache_frame, cache_manager, executions, result>>

NextCache == Get \/ Set \/ Delete \/ Warm \/ WrappedCall \/ StoreFails \/ StoreRecovers

CacheSpec == InitCache /\ [][NextCache]_vars


CacheOperated == call = "cache" /\ pc' \in {"get", "set", "delete", "warm_cache"}

\* C38: on a manager that is disabled or whose store does not answer, get
\* returns None and counts exactly one miss, set, delete and warm_cache return
\* False, and no operation counts a hit.
C38_DegradesAsMiss ==
    [][(CacheOperated /\ (~cache_manager.enabled \/ ~redis.up)) =>
          /\ pc' = "get" =>
                /\ result' = <<PyNone>>
                /\ cache_manager'.stats.misses = cache_manager.stats.misses + 1
          /\ pc' # "get" => result' = <<PyBool(FALSE)>>
          /\ cache_manager'.stats.hits = cache_manager.stats.hits]_vars

MaxReads == 4

FileStates == {"missing", "gen1", "gen2", "bad_gazetteer", "bad_aliases"}

FileGazetteer(f) == PyDict(f)

FileAliases(f) == PyList(f)

EmptyLoader == [gazetteer |-> PyDict("{}"), aliases |-> PyList("[]"), loaded |-> FALSE]

\* _load_from_cache, lines 81-106.
LoadFromCache(ld, cm, rd) ==
    IF ~cm.enabled THEN [loader |-> ld, cm |-> cm, ok |-> FALSE]
    ELSE LET cached_gazetteer == CacheGet(cm, rd, "entity:gazetteer")
             cached_aliases == CacheGet(cached_gazetteer.cm, rd, "entity:aliases")
         IN  IF Truthy(cached_gazetteer.value) /\ Truthy(cached_aliases.value)
             THEN [loader |-> [gazetteer |-> cached_gazetteer.value,
                               aliases |-> cached_aliases.value,
                               loaded |-> TRUE],
                   cm |-> cached_aliases.cm, ok |-> TRUE]
             ELSE [loader |-> ld, cm |-> cached_aliases.cm, ok |-> FALSE]

\* _load_from_files, lines 108-141: json.load of the gazetteer raises before
\* the assignment; a line of the aliases that does not parse raises after the
\* gazetteer was assigned and the aliases were emptied.
LoadFromFiles(ld, f) ==
    IF f \in {"missing", "bad_gazetteer"} THEN [loader |-> ld, ok |-> FALSE]
    ELSE IF f = "bad_aliases"
    THEN [loader |-> [ld EXCEPT !.gazetteer = FileGazetteer(f), !.aliases = PyList("[]")],
          ok |-> FALSE]
    ELSE [loader |-> [gazetteer |-> FileGazetteer(f), aliases |-> FileAliases(f),
                      loaded |-> TRUE],
          ok |-> TRUE]

DefaultGazetteer == PyDict("defaults")

DefaultAliases == PyList("defaults")

\* A fallback that resets the aliases only.
LoadDefaultsAliasesOnly(ld) == [ld EXCEPT !.aliases = DefaultAliases, !.loaded = TRUE]

\* _load_defaults, lines 143-211.
LoadDefaults(ld) ==
    [gazetteer |-> DefaultGazetteer, aliases |-> DefaultAliases, loaded |-> TRUE]

\* A load that asks the cache even when forced.
LoadArtifactsUnforced(ld, cm, rd, f, force_reload) ==
    LET cached == LoadFromCache(ld, cm, rd)
    IN  IF cached.ok
        THEN [loader |-> cached.loader, cm |-> cached.cm, rd |-> rd, ok |-> TRUE]
        ELSE LET read == LoadFromFiles(ld, f)
                 got == IF read.ok THEN read.loader ELSE LoadDefaults(read.loader)
                 warm == WarmCache(cached.cm, rd, got.gazetteer, got.aliases)
             IN  [loader |-> [got EXCEPT !.loaded = TRUE], cm |-> warm.cm, rd |-> warm.rd,
                  ok |-> TRUE]

\* load_artifacts(force_reload), lines 36-79.  Nothing in the try block raises:
\* the three loads and _warm_cache (lines 213-225) catch their own exceptions.
LoadArtifactsOp(ld, cm, rd, f, force_reload) ==
    LET cached == IF force_reload THEN [loader |-> ld, cm |-> cm, ok |-> FALSE]
                  ELSE LoadFromCache(ld, cm, rd)
    IN  IF cached.ok
        THEN [loader |-> cached.loader, cm |-> cached.cm, rd |-> rd, ok |-> TRUE]
        ELSE LET read == LoadFromFiles(ld, f)
                 got == IF read.ok THEN read.loader ELSE LoadDefaults(read.loader)
                 warm == WarmCache(cached.cm, rd, got.gazetteer, got.aliases)
             IN  [loader |-> [got EXCEPT !.loaded = TRUE], cm |-> warm.cm, rd |-> warm.rd,
                  ok |-> TRUE]

\* ArtifactLoader(cache_manager) on a manager that connected or not, against a
\* store that is empty or still holds the artifacts an earlier process cached.
InitLoader ==
    \E connected \in BOOLEAN, warmed \in BOOLEAN :
        /\ InitMatcher(VocabFuzzy.gazetteer, VocabFuzzy.aliases, TRUE)
        /\ call = "loader"
        /\ word_boundaries = TRUE
        /\ text = <<>>
        /\ pc = "idle"
        /\ matches = <<>>
        /\ i = 0
        /\ current = Root
        /\ spin = FALSE
        /\ resolved = <<>>
        /\ tagged_text = <<>>
        /\ entities = <<>>
        /\ NoServiceState
        /\ matchers = <<>>
        /\ fuzzy_matchers = <<>>
        /\ self_matcher = 0
        /\ self_fuzzy_matcher = 0
        /\ calls = <<>>
        /\ reloader = [pc |-> "idle", reloads |-> 0]
        /\ lru_cache = <<>>
        /\ cache_manager = [attached |-> TRUE, enabled |-> connected,
                            stats |-> [hits |-> 0, misses |-> 0, errors |-> 0,
                                       total_requests |-> 0]]
        /\ redis = [up |-> connected,
                    data |-> IF warmed
                             THEN WarmCache([enabled |-> TRUE], [up |-> TRUE, data |-> <<>>],
                                            FileGazetteer("gen0"), FileAliases("gen0")).rd.data
                             ELSE <<>>]
        /\ executions = 0
        /\ loader = EmptyLoader
        /\ files \in FileStates
        /\ NoAdminState

loader_frame == <<engine_vars, lru_cache, executions, admin_vars>>

ReadBudget == StatsTotal(cache_manager) < MaxReads

\* loader.load_artifacts(force_reload)
LoadArtifacts ==
    /\ call = "loader" /\ ReadBudget
    /\ \E force_reload \in BOOLEAN :
        \E r \in {LoadArtifactsOp(loader, cache_manager, redis, files, force_reload)} :
            /\ loader' = r.loader
            /\ cache_manager' = r.cm
            /\ redis' = r.rd
            /\ result' = <<PyBool(r.ok)>>
            /\ pc' = IF force_reload THEN "load_forced" ELSE "load"
    /\ UNCHANGED <<loader_frame, files>>

\* loader.reload(), lines 268-277.
Reload ==
    /\ call = "loader" /\ ReadBudget
    /\ \E r \in {LoadArtifactsOp([loader EXCEPT !.loaded = FALSE], cache_manager, redis,
                                 files, TRUE)} :
            /\ loader' = r.loader
            /\ cache_manager' = r.cm
            /\ redis' = r.rd
            /\ result' = <<PyBool(r.ok)>>
    /\ pc' = "reload"
    /\ UNCHANGED <<loader_frame, files>>

\* loader.invalidate_cache(), lines 246-266: delete_pattern("entity:*") and
\* delete_pattern("result:*") on a store that holds the two artifact keys.
InvalidateCache ==
    /\ call = "loader"
    /\ redis' = IF cache_manager.enabled /\ redis.up THEN [redis EXCEPT !.data = <<>>]
                ELSE redis
    /\ result' = <<PyBool(cache_manager.enabled)>>
    /\ pc' = "invalidate_cache"
    /\ UNCHANGED <<loader_frame, files, loader, cache_manager>>

\* The artifact files are replaced, removed or damaged between two loads.
FilesChange ==
    /\ call = "loader"
    /\ files' \in FileStates \ {files}
    /\ pc' = "files"
    /\ UNCHANGED <<loader_frame, loader, cache_vars, result>>

\* One artifact key reaches the end of its TTL.
Expire ==
    /\ call = "loader"
    /\ \E key \in DOMAIN redis.data :
        /\ redis.data[key].ttl # 0
        /\ redis' = [redis EXCEPT !.data = Without(@, key)]
    /\ pc' = "expired"
    /\ UNCHANGED <<loader_frame, files, loader, cache_manager, result>>

NextLoader ==
    LoadArtifacts \/ Reload \/ InvalidateCache \/ FilesChange \/ Expire \/ StoreFails
        \/ StoreRecovers

LoaderSpec == InitLoader /\ [][NextLoader]_vars

\* What the cache gives for a key: the decoded value, None without the key.
CacheHolds(key) ==
    IF cache_manager.enabled /\ redis.up /\ key \in DOMAIN redis.data
    THEN Deserialize(redis.data[key].value)
    ELSE PyNone

FilesParse == files \in {"gen1", "gen2"}

\* The loader holds the artifacts of the files if they parse, else the defaults.
FromFilesOrDefaults(ld) ==
    IF FilesParse
    THEN ld.gazetteer = FileGazetteer(files) /\ ld.aliases = FileAliases(files)
    ELSE ld.gazetteer = DefaultGazetteer /\ ld.aliases = DefaultAliases

\* C32: load_artifacts without force_reload returns (it does not raise) with
\* loaded True and with both artifacts from one source: from the cache when the
\* cache gives both, else from the files when both parse, else the defaults.
C32_LoadOrder ==
    [][(call = "loader" /\ pc' = "load") =>
          /\ result' \in {<<PyBool(TRUE)>>, <<PyBool(FALSE)>>}
          /\ loader'.loaded
          /\ IF Truthy(CacheHolds("entity:gazetteer")) /\ Truthy(CacheHolds("entity:aliases"))
             THEN /\ loader'.gazetteer = CacheHolds("entity:gazetteer")
                  /\ loader'.aliases = CacheHolds("entity:aliases")
             ELSE FromFilesOrDefaults(loader')]_vars

\* A load that missed the cache, found a gazetteer file that parses next to an
\* aliases file that does not, and ended on the defaults for both.
C32_Witness ==
    /\ call = "loader" /\ pc = "load"
    /\ files = "bad_aliases"
    /\ cache_manager.stats.misses > 0
    /\ loader = [gazetteer |-> DefaultGazetteer, aliases |-> DefaultAliases, loaded |-> TRUE]

\* A load that took both artifacts from the cache while the files parse.
C32_WitnessCache ==
    /\ call = "loader" /\ pc = "load"
    /\ files = "gen1"
    /\ loader.gazetteer = FileGazetteer("gen0")

\* C33: a forced load, and reload(), reads nothing from the cache (the hit and
\* miss counts do not move, and the only errors are those of the two writes on
\* a store that does not answer); the loader holds the files' artifacts or the
\* defaults, and with an enabled manager whose store answers the cache holds
\* exactly these under both keys when the call returns.
C33_ForcedSkipsCache ==
    [][(call = "loader" /\ pc' \in {"load_forced", "reload"}) =>
          /\ cache_manager'.stats.hits = cache_manager.stats.hits
          /\ cache_manager'.stats.misses = cache_manager.stats.misses
          /\ cache_manager'.stats.total_requests = cache_manager.stats.total_requests
          /\ cache_manager'.stats.errors = cache_manager.stats.errors
                 + (IF cache_manager.enabled /\ ~redis.up THEN 2 ELSE 0)
          /\ loader'.loaded
          /\ FromFilesOrDefaults(loader')
          /\ (cache_manager.enabled /\ redis.up) =>
                /\ DOMAIN redis'.data = {"entity:gazetteer", "entity:aliases"}
                /\ redis'.data["entity:gazetteer"] =
                       [value |-> Stored(Serialize(loader'.gazetteer)), ttl |-> TtlArtifacts]
                /\ redis'.data["entity:aliases"] =
                       [value |-> Stored(Serialize(loader'.aliases)), ttl |-> TtlArtifacts]
          /\ ~cache_manager.enabled => redis' = redis]_vars

\* A reload after a load that was answered by the cache: the loader and the
\* cache both hold the second generation of the files.
C33_Witness ==
    /\ call = "loader" /\ pc = "reload"
    /\ cache_manager.stats.hits = 2
    /\ files = "gen2"
    /\ loader.gazetteer = FileGazetteer("gen2")
    /\ "entity:gazetteer" \in DOMAIN redis.data
    /\ redis.data["entity:gazetteer"].value.body = "gen2"

(***************************************************************************)
(* SimpleScheduler (services/scheduler.py).  Time is counted in minutes;   *)
(* the calendar is scaled down: a day has DayMinutes minutes and every     *)
(* month MonthDays days, so that the last day of a month is reached.  A    *)
(* time that is None is -1.                                                *)

DayMinutes == 3

MonthDays == 3

MaxMonths == 2

Horizon == MaxMonths * MonthDays * DayMinutes

DayOfMonth(t) == ((t \div DayMinutes) % MonthDays) + 1

MinuteOfDay(t) == t % DayMinutes

\* now.replace(hour=task["hour"], minute=task["minute"], second=0, microsecond=0)
ReplaceTime(t, at) == t - MinuteOfDay(t) + at

\* _calculate_next_run, lines 51-65: replace(day=target_time.day + 1) raises
\* ValueError when the month has no such day, before next_run is assigned.
CalculateNextRun(task, t) ==
    LET target_time == ReplaceTime(t, task.at)
    IN  IF target_time <= t
        THEN IF DayOfMonth(target_time) = MonthDays
             THEN [raised |-> TRUE, task |-> task]
             ELSE [raised |-> FALSE, task |-> [task EXCEPT !.next_run = target_time + DayMinutes]]
        ELSE [raised |-> FALSE, task |-> [task EXCEPT !.next_run = target_time]]

TaskId == "artifact_update"

\* SimpleScheduler() and a wall clock somewhere in the first day.
InitScheduler ==
    /\ InitMatcher(VocabFuzzy.gazetteer, VocabFuzzy.aliases, TRUE)
    /\ call = "scheduler"
    /\ word_boundaries = TRUE
    /\ text = <<>>
    /\ pc = "idle"
    /\ matches = <<>>
    /\ i = 0
    /\ current = Root
    /\ spin = FALSE
    /\ resolved = <<>>
    /\ tagged_text = <<>>
    /\ entities = <<>>
    /\ NoServiceState
    /\ matchers = <<>>
    /\ fuzzy_matchers = <<>>
    /\ self_matcher = 0
    /\ self_fuzzy_matcher = 0
    /\ calls = <<>>
    /\ reloader = [pc |-> "idle", reloads |-> 0]
    /\ lru_cache = <<>>
    /\ cache_manager = [attached |-> FALSE, enabled |-> FALSE,
                        stats |-> [hits |-> 0, misses |-> 0, errors |-> 0, total_requests |-> 0]]
    /\ redis = [up |-> FALSE, data |-> <<>>]
    /\ executions = 0
    /\ loader = EmptyLoader
    /\ files = "missing"
    /\ scheduler = [running |-> FALSE, pc |-> "idle", tasks |-> <<>>]
    /\ clock_utc \in 0 .. DayMinutes - 1
    /\ admin = [current_update |-> "None", update_history |-> <<>>, background_tasks |-> <<>>,
                updates |-> 0]

scheduler_frame == <<engine_vars, lru_cache, cache_manager, redis, loader_vars, admin, result>>

\* schedule_daily(task_id, hour, minute, task_func), lines 22-49: the task is
\* stored before _calculate_next_run runs, so it stays with next_run None when
\* that raises.
ScheduleDaily ==
    /\ call = "scheduler"
    /\ TaskId \notin DOMAIN scheduler.tasks
    /\ \E at \in 0 .. DayMinutes - 1 :
        LET task == [type |-> "daily", at |-> at, last_run |-> -1, next_run |-> -1,
                     enabled |-> TRUE]
            calc == CalculateNextRun(task, clock_utc)
        IN  /\ scheduler' = [scheduler EXCEPT !.tasks = TaskId :> calc.task]
            /\ pc' = IF calc.raised THEN "schedule_daily raised" ELSE "schedule_daily"
    /\ UNCHANGED <<scheduler_frame, clock_utc, executions>>

\* start(), lines 67-76.
Start ==
    /\ call = "scheduler"
    /\ ~scheduler.running
    /\ scheduler' = [scheduler EXCEPT !.running = TRUE, !.pc = "check"]
    /\ pc' = "start"
    /\ UNCHANGED <<scheduler_frame, clock_utc, executions>>

\* One pass of _run_loop up to its sleep, lines 87-93, with
\* _check_and_run_tasks, lines 95-122: the task function returns or raises and
\* takes less than a minute or a minute; a _calculate_next_run that raises
\* after the function returned is caught at line 119, called again at line 122,
\* raises again and is caught by the loop at line 91.
CheckAndRunTasks ==
    /\ call = "scheduler"
    /\ scheduler.running /\ scheduler.pc = "check"
    /\ IF /\ TaskId \in DOMAIN scheduler.tasks
          /\ scheduler.tasks[TaskId].enabled
          /\ scheduler.tasks[TaskId].next_run # -1
          /\ clock_utc >= scheduler.tasks[TaskId].next_run
       THEN \E returns \in BOOLEAN, duration \in {0, 1} :
               LET task == scheduler.tasks[TaskId]
                   ran == IF returns THEN [task EXCEPT !.last_run = clock_utc] ELSE task
                   calc == CalculateNextRun(ran, clock_utc + duration)
               IN  /\ clock_utc + duration <= Horizon
                   /\ executions' = executions + 1
                   /\ clock_utc' = clock_utc + duration
                   /\ scheduler' = [scheduler EXCEPT !.tasks = TaskId :> calc.task,
                                                     !.pc = "sleep"]
                   /\ pc' = IF calc.raised THEN "task ran, loop caught"
                            ELSE IF returns THEN "task ran" ELSE "task failed"
       ELSE /\ scheduler' = [scheduler EXCEPT !.pc = "sleep"]
            /\ pc' = "nothing due"
            /\ UNCHANGED <<clock_utc, executions>>
    /\ UNCHANGED scheduler_frame

\* time.sleep(60), lines 90 and 93.
Sleep ==
    /\ call = "scheduler"
    /\ scheduler.running /\ scheduler.pc = "sleep"
    /\ clock_utc < Horizon
    /\ clock_utc' = clock_utc + 1
    /\ scheduler' = [scheduler EXCEPT !.pc = "check"]
    /\ pc' = "sleep"
    /\ UNCHANGED <<scheduler_frame, executions>>

\* Time passes before the scheduler is set up.
Wait ==
    /\ call = "scheduler"
    /\ ~scheduler.running
    /\ clock_utc < Horizon
    /\ clock_utc' = clock_utc + 1
    /\ pc' = "wait"
    /\ UNCHANGED <<scheduler_frame, scheduler, executions>>

NextScheduler == ScheduleDaily \/ Start \/ CheckAndRunTasks \/ Sleep \/ Wait

SchedulerSpec == InitScheduler /\ [][NextScheduler]_vars

TaskRan == call = "scheduler" /\ executions' = executions + 1

\* C34: after a check has run a due daily task, the function having returned
\* or raised, the task's next_run is strictly later than the current time,
\* on every day of the month.
C34_NextRunAfterNow ==
    [][TaskRan => scheduler'.tasks[TaskId].next_run > clock_utc']_vars

(***************************************************************************)
(* Artifact updates of routes/admin.py.  trigger_artifact_update runs on   *)
(* the event loop and hands perform_artifact_update to the background      *)
(* tasks, which run it after the response is sent.  perform never yields   *)
(* to the loop (backup_current_artifacts, its only await, awaits nothing), *)
(* so it is one step.  Update ids are numbered in the order generated.     *)

HistoryCap == 50

MaxUpdates == 52

MaxFailed == 1

MaxPending == 2

\* History that is never trimmed.
KeepAll(history) == history

\* lines 185-187: "if len(_update_history) > 50: _update_history.pop(0)"
KeepLast(history) == IF Len(history) > HistoryCap THEN Tail(history) ELSE history

FailedIn(history) == {k \in DOMAIN history : history[k].status = "failed"}

\* The module globals after import: no update, an empty history.
InitAdmin ==
    /\ InitMatcher(VocabFuzzy.gazetteer, VocabFuzzy.aliases, TRUE)
    /\ call = "admin"
    /\ word_boundaries = TRUE
    /\ text = <<>>
    /\ pc = "idle"
    /\ matches = <<>>
    /\ i = 0
    /\ current = Root
    /\ spin = FALSE
    /\ resolved = <<>>
    /\ tagged_text = <<>>
    /\ entities = <<>>
    /\ NoServiceState
    /\ matchers = <<>>
    /\ fuzzy_matchers = <<>>
    /\ self_matcher = 0
    /\ self_fuzzy_matcher = 0
    /\ calls = <<>>
    /\ reloader = [pc |-> "idle", reloads |-> 0]
    /\ lru_cache = <<>>
    /\ cache_manager = [attached |-> TRUE, enabled |-> FALSE,
                        stats |-> [hits |-> 0, misses |-> 0, errors |-> 0, total_requests |-> 0]]
    /\ redis = [up |-> FALSE, data |-> <<>>]
    /\ executions = 0
    /\ loader = EmptyLoader
    /\ files \in {"gen1", "missing"}
    /\ NoAdminState

admin_frame == <<engine_vars, lru_cache, executions, scheduler, clock_utc>>

\* POST /admin/artifacts/update, lines 236-277.
TriggerArtifactUpdate ==
    /\ call = "admin"
    /\ admin.updates < MaxUpdates
    /\ Len(admin.background_tasks) < MaxPending
    /\ IF admin.current_update # "None"
       THEN /\ result' = <<PyStr("409")>>
            /\ UNCHANGED admin
       ELSE /\ admin' = [admin EXCEPT !.updates = @ + 1,
                                      !.background_tasks = Append(@, admin.updates + 1)]
            /\ result' = <<PyStr("started")>>
    /\ pc' = "trigger"
    /\ UNCHANGED <<admin_frame, cache_vars, loader_vars>>

\* perform_artifact_update(update_id, force_refresh, backup_current), lines
\* 71-189, run by the background tasks: the loader reloads, and the update
\* fails when a later step of the try block raises (line 135 on a gazetteer
\* with a value that has no len).
PerformArtifactUpdate ==
    /\ call = "admin"
    /\ admin.background_tasks # <<>>
    /\ \E raises \in BOOLEAN :
        \E r \in {LoadArtifactsOp([loader EXCEPT !.loaded = FALSE], cache_manager, redis,
                                  files, TRUE)} :
            LET update_id == Head(admin.background_tasks)
                update_record == [update_id |-> update_id,
                                  status |-> IF r.ok /\ ~raises THEN "completed" ELSE "failed"]
            IN  /\ raises => Cardinality(FailedIn(admin.update_history)) < MaxFailed
                /\ loader' = r.loader
                /\ cache_manager' = r.cm
                /\ redis' = r.rd
                /\ admin' = [admin EXCEPT
                                !.background_tasks = Tail(@),
                                !.update_history = KeepLast(Append(@, update_record)),
                                !.current_update = "None"]
                /\ result' = <<PyStr(update_record.status)>>
    /\ pc' = "perform"
    /\ UNCHANGED <<admin_frame, files>>

NextAdmin == TriggerArtifactUpdate \/ PerformArtifactUpdate

AdminSpec == InitAdmin /\ [][NextAdmin]_vars

\* An update was triggered and has not finished: it waits among the background
\* tasks or it is the current update.
InProgress == admin.background_tasks # <<>> \/ admin.current_update # "None"

\* C35: a trigger request that arrives while an update is in progress is
\* answered 409 and schedules no background task.
C35_OneUpdateAtATime ==
    [][(call = "admin" /\ pc' = "trigger" /\ InProgress) =>
          /\ result' = <<PyStr("409")>>
          /\ admin'.background_tasks = admin.background_tasks]_vars

Finished == admin.updates - Len(admin.background_tasks)

\* C36: the history holds at most 50 records, the most recent finished updates
\* in the order they finished, each with status completed or failed; no update
\* is current once it has finished; and an update that finishes appends one
\* record, its own, at the end.
C36_HistoryInv ==
    /\ call = "admin" =>
          /\ Len(admin.update_history) <= 50
          /\ Len(admin.update_history) = IF Finished < 50 THEN Finished ELSE 50
          /\ \A k \in DOMAIN admin.update_history :
                /\ admin.update_history[k].update_id
                       = Finished - Len(admin.update_history) + k
                /\ admin.update_history[k].status \in {"completed", "failed"}
          /\ admin.current_update = "None"

C36_BoundedHistory ==
    []C36_HistoryInv
    /\ [][(call = "admin" /\ pc' = "perform") =>
             \E status \in {"completed", "failed"} :
                 LET record == [update_id |-> Head(admin.background_tasks), status |-> status]
                     grown == Append(admin.update_history, record)
                 IN  admin'.update_history \in {grown, Tail(grown)}]_vars

\* Fifty-one updates have finished, one of them failed: the first record was
\* dropped and the history starts at the second update.
C36_Witness ==
    /\ call = "admin" /\ pc = "perform"
    /\ Finished = 51
    /\ Len(admin.update_history) = 50
    /\ admin.update_history[1].update_id = 2
    /\ FailedIn(admin.update_history) # {}

=============================================================================
